---- MODULE Spec2Model ----
(***************************************************************************)
(* A model of moodle-ts: the parameter serializer (serialize.ts), the HTTP *)
(* call executor (call.ts), the client facade (MoodleClient.ts), the error *)
(* taxonomy (errors.ts), and the OpenAPI generator with its YAML emitter   *)
(* (scripts/generate-openapi.mjs).                                         *)
(*                                                                         *)
(* JavaScript values are records tagged with their typeof / shape:         *)
(*   [t |-> "undefined"], [t |-> "null"], [t |-> "boolean", b |-> ...],     *)
(*   [t |-> "number", n |-> ...], [t |-> "string", s |-> ...],              *)
(*   [t |-> "array", items |-> <<...>>],                                   *)
(*   [t |-> "object", props |-> << [k |-> key, v |-> value], ... >>]        *)
(* An object's props are listed in the order Object.entries reports them.  *)
(* Texts (keys, messages, URLs) are TLA+ strings joined with \o. Where the *)
(* code looks inside a text (split, charAt, includes, sort) the text is a  *)
(* sequence of one-character strings.                                      *)
(***************************************************************************)
EXTENDS Integers, Sequences, FiniteSets, TLC

VARIABLES
    serPc,      \* serializer harness: "idle" | "ready" | "done"
    serParams,  \* the params mapping as the caller wrote it (insertion order)
    serPrefix,  \* the prefix argument of serializeParams ("" = default)
    serOut      \* the entries of the returned URLSearchParams, in order

serVars == <<serPc, serParams, serPrefix, serOut>>

VARIABLES
    pc,         \* "idle" | "start" | "ready" | "ctorThrown" | "fetching" |
                \* "reading" | "returned" | "thrown"
    cfgIn,      \* the configuration the caller wrote: baseUrl, token, timeout
    wsfunction, \* the function name passed to call
    callParams, \* the params passed to call
    client,     \* this.config of the constructed MoodleClient
    ctorError,  \* the error the MoodleClient constructor threw
    opts,       \* the options call() runs with; timeout resolved to a number
    request,    \* what was handed to the transport: url and body
    timer,      \* the deadline timer: "none" | "armed" | "cleared" | "fired"
    aborted,    \* controller.signal.aborted
    httpResponse, \* the transport's response: status and statusText
    bodyRead,   \* response.json() has been called
    parsed,     \* the value response.json() resolved with
    outcome     \* what call() returned or threw

callVars == <<pc, cfgIn, wsfunction, callParams, client, ctorError, opts, request,
              timer, aborted, httpResponse, bodyRead, parsed, outcome>>

VARIABLES
    genPc,      \* generator harness: "idle" | "ready" | "done"
    genNode,    \* the schema tree handed to moodleTypeToOpenAPI
    genDoc,     \* the schema document handed to generateOpenAPISpec
    genOut,     \* what the latest run returned or threw
    genPrev     \* what the run before the latest returned or threw

genVars == <<genPc, genNode, genDoc, genOut, genPrev>>

VARIABLES
    yamlPc,     \* emitter harness: "idle" | "ready" | "done"
    yamlIn,     \* the value handed to jsonToYaml
    yamlOut     \* the text jsonToYaml returned

yamlVars == <<yamlPc, yamlIn, yamlOut>>

toolVars == <<genVars, yamlVars>>

VARIABLES
    frames,      \* per invocation of call(): its position and its locals
    controllers, \* the AbortController objects created: signal.aborted of each
    timers,      \* the runtime's timers: state, and the controller the callback aborts
    transport    \* the requests fetch was called with: url, body, signal

concVars == <<frames, controllers, timers, transport>>

vars == <<serVars, callVars, toolVars, concVars>>

\* not set (yet)
Nothing == [t |-> "nothing"]

----------------------------------------------------------------------------
(* Bounds of the model *)

\* largest number of nodes (scalars, arrays, mappings) in a generated value
MaxNodes == 3

\* largest array index recognised among mapping keys
MaxArrayIndex == 12

----------------------------------------------------------------------------
(* JavaScript values *)

Undef == [t |-> "undefined"]
Null == [t |-> "null"]
Bool(b) == [t |-> "boolean", b |-> b]
Num(n) == [t |-> "number", n |-> n]
Str(s) == [t |-> "string", s |-> s]
Arr(items) == [t |-> "array", items |-> items]
Obj(props) == [t |-> "object", props |-> props]
Prop(k, v) == [k |-> k, v |-> v]

\* typeof v === "object" && v !== null
IsObjectLike(v) == v.t \in {"array", "object"}

Digit == <<"0", "1", "2", "3", "4", "5", "6", "7", "8", "9">>

RECURSIVE NatToStr(_)
\* String(n) / `${n}` for a non-negative integer
NatToStr(n) ==
    IF n < 10 THEN Digit[n + 1]
    ELSE NatToStr(n \div 10) \o Digit[(n % 10) + 1]

\* String(value) for an integer number
NumberToString(n) == IF n < 0 THEN "-" \o NatToStr(-n) ELSE NatToStr(n)

----------------------------------------------------------------------------
(* JavaScript objects: own property order *)

\* the key is a canonical array index ("0", "1", "10", ...; not "01", "x")
IsArrayIndex(k) == \E n \in 0..MaxArrayIndex : NatToStr(n) = k

ArrayIndexOf(k) == CHOOSE n \in 0..MaxArrayIndex : NatToStr(n) = k

HasKey(props, k) == \E i \in DOMAIN props : props[i].k = k

\* where a new key goes: an array index before every larger index and every
\* string key, a string key at the end
InsertAt(props, k) ==
    IF IsArrayIndex(k)
    THEN Cardinality({i \in DOMAIN props :
            IsArrayIndex(props[i].k) /\ ArrayIndexOf(props[i].k) < ArrayIndexOf(k)})
    ELSE Len(props)

\* obj[k] = v on an ordinary object: an existing key keeps its place and takes
\* the new value; a new key is placed by OrdinaryOwnPropertyKeys' order
DefineProp(props, k, v) ==
    IF HasKey(props, k)
    THEN [i \in DOMAIN props |-> IF props[i].k = k THEN Prop(k, v) ELSE props[i]]
    ELSE LET at == InsertAt(props, k)
         IN SubSeq(props, 1, at) \o <<Prop(k, v)>> \o SubSeq(props, at + 1, Len(props))

RECURSIVE DefineAll(_, _)
\* the properties of ins defined one after the other on props
DefineAll(props, ins) ==
    IF ins = <<>> THEN props
    ELSE DefineAll(DefineProp(props, Head(ins).k, Head(ins).v), Tail(ins))

RECURSIVE ToJS(_)
RECURSIVE ToJSAll(_)
\* the JavaScript value an object / array literal evaluates to: every mapping
\* written {k1: v1, k2: v2, ...} becomes an object with own property order
ToJS(lit) ==
    IF lit.t = "array" THEN Arr(ToJSAll(lit.items))
    ELSE IF lit.t = "object"
         THEN Obj(DefineAll(<<>>,
                  [i \in DOMAIN lit.props |-> Prop(lit.props[i].k, ToJS(lit.props[i].v))]))
    ELSE lit

ToJSAll(items) == [i \in DOMAIN items |-> ToJS(items[i])]

\* Object.entries(value) of an object or an array
ObjectEntries(value) ==
    IF value.t = "array"
    THEN [i \in DOMAIN value.items |-> Prop(NatToStr(i - 1), value.items[i])]
    ELSE value.props

----------------------------------------------------------------------------
(* serialize.ts *)

\* one entry of a URLSearchParams
Entry(k, v) == [k |-> k, v |-> v]

\* value ? "1" : "0"
BooleanText(b) == IF b THEN "1" ELSE "0"

IsNullish_Falsy(value) ==
    \/ value.t \in {"null", "undefined"}
    \/ value.t = "boolean" /\ ~value.b
    \/ value.t = "number" /\ value.n = 0
    \/ value.t = "string" /\ value.s = ""

\* value === null || value === undefined
IsNullish(value) == value.t \in {"null", "undefined"}

SubKey_Dotted(key, subKey) == key \o "." \o subKey

\* `${key}[${subKey}]`
SubKey(key, subKey) == key \o "[" \o subKey \o "]"

RECURSIVE appendParam(_, _)
RECURSIVE appendEntries(_, _)
RECURSIVE appendItems(_, _, _)

\* the entries appendParam(key, value) appends to searchParams, in order
appendParam(key, value) ==
    IF IsNullish(value) THEN <<>>
    ELSE IF value.t = "boolean" THEN <<Entry(key, BooleanText(value.b))>>
    ELSE IF value.t = "number" THEN <<Entry(key, NumberToString(value.n))>>
    ELSE IF value.t = "string" THEN <<Entry(key, value.s)>>
    ELSE IF value.t = "array" THEN appendItems(key, value.items, 0)
    ELSE IF value.t = "object" THEN appendEntries(key, ObjectEntries(value))
    ELSE <<>>

\* entries.forEach(([subKey, subValue]) => appendParam(`${key}[${subKey}]`, subValue))
appendEntries(key, entries) ==
    IF entries = <<>> THEN <<>>
    ELSE appendParam(SubKey(key, Head(entries).k), Head(entries).v)
         \o appendEntries(key, Tail(entries))

\* value.forEach((item, index) => ...) from index on
appendItems(key, items, index) ==
    IF items = <<>> THEN <<>>
    ELSE LET item == Head(items)
             arrayKey == SubKey(key, NatToStr(index))
         IN (IF IsObjectLike(item)
             THEN appendEntries(arrayKey, ObjectEntries(item))
             ELSE appendParam(arrayKey, item))
            \o appendItems(key, Tail(items), index + 1)

RECURSIVE serializeTop(_, _)
\* Object.entries(params).forEach(([key, value]) => appendParam(fullKey, value))
serializeTop(entries, prefix) ==
    IF entries = <<>> THEN <<>>
    ELSE LET key == Head(entries).k
             fullKey == IF prefix # "" THEN SubKey(prefix, key) ELSE key
         IN appendParam(fullKey, Head(entries).v) \o serializeTop(Tail(entries), prefix)

\* serializeParams(params, prefix): the entries of the URLSearchParams returned
serializeParams(params, prefix) == serializeTop(ObjectEntries(params), prefix)

----------------------------------------------------------------------------
(* errors.ts *)

\* String(v), as the Error constructor applies it to its message argument
JsToString(v) ==
    IF v.t = "string" THEN v.s
    ELSE IF v.t = "number" THEN NumberToString(v.n)
    ELSE IF v.t = "boolean" THEN (IF v.b THEN "true" ELSE "false")
    ELSE IF v.t = "null" THEN "null"
    ELSE IF v.t = "undefined" THEN "undefined"
    ELSE "[object Object]"  \* a plain object

\* new MoodleApiError(message, errorCode, exception, debugInfo); message is a
\* JavaScript value that super(message) turns into a string
MoodleApiError(message, errorCode, exception, debugInfo) ==
    [class |-> "MoodleApiError", name |-> "MoodleApiError",
     message |-> JsToString(message), code |-> errorCode, errorCode |-> errorCode,
     exception |-> exception, debugInfo |-> debugInfo]

\* new MoodleNetworkError(message, cause); message is a text
MoodleNetworkError(message, cause) ==
    [class |-> "MoodleNetworkError", name |-> "MoodleNetworkError",
     message |-> message, code |-> Str("network_error"), cause |-> cause]

\* new MoodleValidationError(message, field)
MoodleValidationError(message, field) ==
    [class |-> "MoodleValidationError", name |-> "MoodleValidationError",
     message |-> message, code |-> Str("validation_error"), field |-> field]

\* a built-in error: new Error(message), new TypeError(message), ...
BuiltinError(class, name, message) ==
    [class |-> class, name |-> name, message |-> message]

\* a thrown value that is no Error (throw "boom")
NotAnError == [class |-> "NotAnError", name |-> "", message |-> ""]

\* error instanceof Error
InstanceOfError(error) == error.class # "NotAnError"

\* error instanceof MoodleApiError
InstanceOfMoodleApiError(error) == error.class = "MoodleApiError"

\* key in value, for an object or an array
In(key, value) ==
    IF value.t = "array"
    THEN key = "length" \/ (IsArrayIndex(key) /\ ArrayIndexOf(key) < Len(value.items))
    ELSE HasKey(value.props, key)

\* value[key] for an object or an array (undefined when the key is absent)
Get(value, key) ==
    IF value.t = "object" /\ HasKey(value.props, key)
    THEN LET i == CHOOSE j \in DOMAIN value.props : value.props[j].k = key
         IN value.props[i].v
    ELSE Undef

isMoodleErrorResponse_MessageOnly(response) ==
    /\ IsObjectLike(response)
    /\ In("message", response)

\* typeof response === "object" && response !== null && "message" in response
\* && ("exception" in response || "errorcode" in response)
isMoodleErrorResponse(response) ==
    /\ IsObjectLike(response)
    /\ In("message", response)
    /\ (In("exception", response) \/ In("errorcode", response))

----------------------------------------------------------------------------
(* URLs. The text of a URL is a sequence of pieces whose concatenation it   *)
(* is: the origin (scheme and authority) first, then "/" and path segments. *)

RECURSIVE Join(_)
\* the text the pieces spell
Join(pieces) == IF pieces = <<>> THEN "" ELSE Head(pieces) \o Join(Tail(pieces))

\* a string value given by its pieces
UrlStr(pieces) == [t |-> "string", pieces |-> pieces]

Origins == {"https://moodle.example.com"}

\* the URL parser on an absolute URL text: it needs a scheme and a host
URLParse(pieces) ==
    IF pieces # <<>> /\ Head(pieces) \in Origins
    THEN [ok |-> TRUE, origin |-> Head(pieces), pathname |-> Join(Tail(pieces))]
    ELSE [ok |-> FALSE, origin |-> "", pathname |-> ""]

\* new URL(path, base) for a path that begins with "/": the base gives the
\* origin and the path-absolute reference replaces the base's whole path;
\* ok = FALSE stands for the TypeError thrown on a base that does not parse
NewURL(path, base) ==
    IF base.t = "string" /\ URLParse(base.pieces).ok
    THEN [ok |-> TRUE, origin |-> URLParse(base.pieces).origin, pathname |-> path]
    ELSE [ok |-> FALSE, origin |-> "", pathname |-> ""]

\* url.toString()
URLToString(url) == url.origin \o url.pathname

RECURSIVE StripTrailingSlashes(_)
\* baseUrl.replace(/\/+$/, "")
StripTrailingSlashes(pieces) ==
    IF pieces # <<>> /\ pieces[Len(pieces)] = "/"
    THEN StripTrailingSlashes(SubSeq(pieces, 1, Len(pieces) - 1))
    ELSE pieces

\* !v for a string or an absent value
Falsy(v) ==
    \/ v.t \in {"undefined", "null"}
    \/ v.t = "string" /\ (IF "pieces" \in DOMAIN v THEN Join(v.pieces) ELSE v.s) = ""

\* v ?? d
Coalesce(v, d) == IF v.t \in {"undefined", "null"} THEN d ELSE v

----------------------------------------------------------------------------
(* call.ts *)

\* timeout = 30000
DefaultTimeout == 30000

EndpointPath == "/webservice/rest/server.php"

\* { wstoken: token, wsfunction, moodlewsrestformat: "json", ...params }:
\* the three protocol properties are defined first, then params' own
\* properties are copied over them in Object.entries order
RequestParams(token, fn, params) ==
    Obj(DefineAll(<<>>,
        <<Prop("wstoken", token), Prop("wsfunction", Str(fn)),
          Prop("moodlewsrestformat", Str("json"))>> \o ObjectEntries(params)))

\* response.ok
ResponseOk(status) == status >= 200 /\ status <= 299

HttpErrorMessage_NoReason(status, statusText) == "HTTP " \o NatToStr(status)

\* `HTTP ${response.status}: ${response.statusText}`
HttpErrorMessage(status, statusText) ==
    "HTTP " \o NatToStr(status) \o ": " \o statusText

TimeoutMessage_Fixed(timeout) == "Request timeout"

\* `Request timeout after ${timeout}ms`
TimeoutMessage(timeout) == "Request timeout after " \o NumberToString(timeout) \o "ms"

\* error.name === "AbortError"
IsAbortError(error) == error.name = "AbortError"

\* data.errorcode ?? "unknown"
ErrorCodeOf(data) == Coalesce(Get(data, "errorcode"), Str("unknown"))

\* new MoodleApiError(data.message, data.errorcode ?? "unknown", data.exception,
\*                    data.debuginfo)
ApiErrorOf(data) ==
    MoodleApiError(Get(data, "message"), ErrorCodeOf(data), Get(data, "exception"),
                   Get(data, "debuginfo"))

\* data.warnings whenever data has the key, array or not
WarningsOf_AnyValue(data) ==
    IF IsObjectLike(data) /\ In("warnings", data) THEN Get(data, "warnings") ELSE Undef

\* the warnings of a result: data.warnings when data is an object whose
\* warnings is an array, undefined otherwise
WarningsOf(data) ==
    IF IsObjectLike(data) /\ In("warnings", data) /\ Get(data, "warnings").t = "array"
    THEN Get(data, "warnings")
    ELSE Undef

\* the error the catch block throws for the error it caught
Catch(error, timeout) ==
    IF InstanceOfMoodleApiError(error) THEN error
    ELSE IF InstanceOfError(error)
         THEN IF IsAbortError(error)
              THEN MoodleNetworkError(TimeoutMessage(timeout), Undef)
              ELSE MoodleNetworkError(error.message, error)
    ELSE MoodleNetworkError("Unknown error occurred", Undef)

\* a clearTimeout that leaves the timer armed
ClearTimeout_Noop(t) == t

\* clearTimeout(timeoutId): disarms an armed timer, nothing else
ClearTimeout(t) == IF t = "armed" THEN "cleared" ELSE t

\* the reason an aborted fetch rejects with: controller.abort() without an
\* argument makes it a DOMException named AbortError, which is an Error
AbortReason == BuiltinError("DOMException", "AbortError", "This operation was aborted")

----------------------------------------------------------------------------
(* Inputs of the serializer: every value of at most MaxNodes nodes *)

Scalars == {Null, Undef, Bool(TRUE), Bool(FALSE), Num(7), Str("s")}

\* keys of generated mappings: a plain key and an integer-like key
MapKeys == {"x", "1"}

\* the sequences of n distinct keys
KeySeqs(n) ==
    {ks \in [1..n -> MapKeys] : \A i, j \in 1..n : i # j => ks[i] # ks[j]}

\* the mappings whose values are the values of f, under every choice of keys
MappingsOver(f) ==
    {Obj([i \in DOMAIN f |-> Prop(ks[i], f[i])]) : ks \in KeySeqs(Len(f))}

RECURSIVE ValuesOfSize(_)
RECURSIVE ForestsOfSize(_)

\* the sequences of values with n nodes in all
ForestsOfSize(n) ==
    IF n = 0 THEN {<<>>}
    ELSE UNION {{<<v>> \o f : v \in ValuesOfSize(s), f \in ForestsOfSize(n - s)} :
                s \in 1..n}

\* the values (as written by the caller) with exactly n nodes
ValuesOfSize(n) ==
    IF n = 1 THEN Scalars \cup {Arr(<<>>), Obj(<<>>)}
    ELSE LET forests == ForestsOfSize(n - 1)
         IN {Arr(f) : f \in forests} \cup UNION {MappingsOver(f) : f \in forests}

\* serialize({a: [{x: 1}, {x: 2}]})
ExampleArrayOfObjects ==
    Obj(<<Prop("a", Arr(<<Obj(<<Prop("x", Num(1))>>), Obj(<<Prop("x", Num(2))>>)>>))>>)

\* serialize({flag: true, missing: null})
ExampleFlagMissing == Obj(<<Prop("flag", Bool(TRUE)), Prop("missing", Null)>>)

\* the params mappings tried: a mapping is one node, its values the others
SerInputs ==
    UNION {UNION {MappingsOver(f) : f \in ForestsOfSize(n)} : n \in 0..MaxNodes}
    \cup {ExampleArrayOfObjects, ExampleFlagMissing}

SerPrefixes == {"", "p"}

----------------------------------------------------------------------------
(* Inputs of the client and the call executor *)

Origin == "https://moodle.example.com"

\* missing, empty, not a URL, a site at the root, a site under /moodle
BaseUrls ==
    {Undef, UrlStr(<<>>), UrlStr(<<"moodle.example.com">>),
     UrlStr(<<Origin>>), UrlStr(<<Origin, "/">>),
     UrlStr(<<Origin, "/", "moodle">>), UrlStr(<<Origin, "/", "moodle", "/">>)}

Tokens == {Undef, Str(""), Str("secret")}

Timeouts == {Undef, Num(5000)}

Configs == [baseUrl : BaseUrls, token : Tokens, timeout : Timeouts]

Functions == {"core_course_get_courses"}

ParamChoices ==
    {Obj(<<>>),
     Obj(<<Prop("ids", Arr(<<Num(1), Num(2)>>))>>),
     Obj(<<Prop("wstoken", Str("other"))>>),
     Obj(<<Prop("wstoken", Null)>>),
     Obj(<<Prop("wsfunction", Str("core_user_get_users"))>>)}

Responses ==
    {[status |-> 200, statusText |-> "OK"],
     [status |-> 404, statusText |-> "Not Found"],
     [status |-> 503, statusText |-> "Service Unavailable"]}

\* what fetch rejects with when the request cannot be made
TransportErrors == {BuiltinError("TypeError", "TypeError", "fetch failed"), NotAnError}

\* what response.json() rejects with on a body that is not JSON
BodyErrors == {BuiltinError("SyntaxError", "SyntaxError", "Unexpected token < in JSON")}

\* the object with the given properties, those valued undefined left out
ObjectOf(props) == Obj(SelectSeq(props, LAMBDA p : p.v # Undef))

\* parsed response bodies: non-objects, and objects with every combination of
\* the fields the executor looks at (undefined = the field is absent)
Bodies ==
    {Null, Str("done"), Arr(<<Num(1)>>)}
    \cup {ObjectOf(<<Prop("message", m), Prop("exception", e), Prop("errorcode", c),
                     Prop("debuginfo", d), Prop("warnings", w)>>) :
            m \in {Undef, Str("Invalid token"), Null},
            e \in {Undef, Str("moodle_exception")},
            c \in {Undef, Str("invalidtoken"), Null},
            d \in {Undef, Str("trace")},
            w \in {Undef, Arr(<<Str("w1")>>), Str("none")}}

----------------------------------------------------------------------------
(* The serializer harness: one call of serializeParams on one input; the   *)
(* client and the call executor stay idle                                  *)

CallIdle ==
    /\ pc = "idle"
    /\ cfgIn = Nothing
    /\ wsfunction = ""
    /\ callParams = Obj(<<>>)
    /\ client = Nothing
    /\ ctorError = Nothing
    /\ opts = Nothing
    /\ request = Nothing
    /\ timer = "none"
    /\ aborted = FALSE
    /\ httpResponse = Nothing
    /\ bodyRead = FALSE
    /\ parsed = Nothing
    /\ outcome = Nothing

GeneratorIdle ==
    /\ genPc = "idle"
    /\ genNode = Nothing
    /\ genDoc = Nothing
    /\ genOut = Nothing
    /\ genPrev = Nothing

EmitterIdle ==
    /\ yamlPc = "idle"
    /\ yamlIn = Nothing
    /\ yamlOut = <<>>

ConcurrentIdle ==
    /\ frames = <<>>
    /\ controllers = <<>>
    /\ timers = <<>>
    /\ transport = <<>>

SerializerIdle ==
    /\ serPc = "idle"
    /\ serParams = Obj(<<>>)
    /\ serPrefix = ""
    /\ serOut = <<>>

InitSerializer ==
    /\ serPc = "ready"
    /\ serParams \in SerInputs
    /\ serPrefix \in SerPrefixes
    /\ serOut = <<>>
    /\ CallIdle
    /\ GeneratorIdle
    /\ EmitterIdle
    /\ ConcurrentIdle

\* const out = serializeParams(params, prefix)
Serialize ==
    /\ serPc = "ready"
    /\ serOut' = serializeParams(ToJS(serParams), serPrefix)
    /\ serPc' = "done"
    /\ UNCHANGED <<serParams, serPrefix, callVars, toolVars, concVars>>

----------------------------------------------------------------------------
(* MoodleClient.ts and call.ts as a state machine: one client, one call *)

Init ==
    /\ pc = "start"
    /\ cfgIn \in Configs
    /\ wsfunction \in Functions
    /\ callParams \in {ToJS(p) : p \in ParamChoices}
    /\ client = Nothing
    /\ ctorError = Nothing
    /\ opts = Nothing
    /\ request = Nothing
    /\ timer = "none"
    /\ aborted = FALSE
    /\ httpResponse = Nothing
    /\ bodyRead = FALSE
    /\ parsed = Nothing
    /\ outcome = Nothing
    /\ SerializerIdle
    /\ GeneratorIdle
    /\ EmitterIdle
    /\ ConcurrentIdle

\* the error the MoodleClient constructor throws for a configuration, or
\* Nothing when it accepts it
ConstructorError(config) ==
    IF Falsy(config.baseUrl) THEN BuiltinError("Error", "Error", "baseUrl is required")
    ELSE IF Falsy(config.token) THEN BuiltinError("Error", "Error", "token is required")
    ELSE Nothing

\* this.config of a client constructed from an accepted configuration
ClientConfig(config) ==
    [baseUrl |-> UrlStr(StripTrailingSlashes(config.baseUrl.pieces)),
     token |-> config.token,
     timeout |-> Coalesce(config.timeout, Num(DefaultTimeout))]

\* new MoodleClient(cfgIn)
Construct ==
    /\ pc = "start"
    /\ IF ConstructorError(cfgIn) # Nothing
       THEN /\ pc' = "ctorThrown"
            /\ ctorError' = ConstructorError(cfgIn)
            /\ client' = client
       ELSE /\ pc' = "ready"
            /\ client' = ClientConfig(cfgIn)
            /\ ctorError' = ctorError
    /\ UNCHANGED <<cfgIn, wsfunction, callParams, opts, request, timer, aborted,
                   httpResponse, bodyRead, parsed, outcome, serVars, toolVars, concVars>>

\* call(wsfunction, params, options) up to its first await: the options are
\* destructured, the URL and the body are built (outside the try block), the
\* timer is armed and fetch is called
CallStart(options) ==
    LET timeout == IF options.timeout = Undef THEN DefaultTimeout ELSE options.timeout.n
        url == NewURL(EndpointPath, options.baseUrl)
        body == serializeParams(RequestParams(options.token, wsfunction, callParams), "")
    IN /\ opts' = [baseUrl |-> options.baseUrl, token |-> options.token,
                   timeout |-> timeout]
       /\ IF url.ok
          THEN /\ request' = [url |-> URLToString(url), body |-> body]
               /\ timer' = "armed"
               /\ pc' = "fetching"
               /\ outcome' = outcome
          ELSE /\ outcome' = BuiltinError("TypeError", "TypeError", "Invalid URL")
               /\ pc' = "thrown"
               /\ UNCHANGED <<request, timer>>
       /\ UNCHANGED <<cfgIn, wsfunction, callParams, client, ctorError, aborted,
                      httpResponse, bodyRead, parsed, serVars, toolVars, concVars>>

\* client.call(wsfunction, params)
ClientCall ==
    /\ pc = "ready"
    /\ CallStart(client)

\* call(wsfunction, params, cfgIn) without a client
DirectCall ==
    /\ pc = "start"
    /\ CallStart(cfgIn)

\* the call ends throwing what the catch block makes of error
Throw(error) ==
    /\ timer' = ClearTimeout(timer)
    /\ outcome' = Catch(error, opts.timeout)
    /\ pc' = "thrown"

\* fetch resolves with a response: the timer is cleared; a status outside
\* 2xx throws, otherwise response.json() is called
FetchResolve ==
    /\ pc = "fetching"
    /\ ~aborted
    /\ \E r \in Responses :
        /\ httpResponse' = r
        /\ IF ~ResponseOk(r.status)
           THEN /\ Throw(MoodleNetworkError(HttpErrorMessage(r.status, r.statusText), Undef))
                /\ UNCHANGED bodyRead
           ELSE /\ timer' = ClearTimeout(timer)
                /\ bodyRead' = TRUE
                /\ pc' = "reading"
                /\ outcome' = outcome
    /\ UNCHANGED <<cfgIn, wsfunction, callParams, client, ctorError, opts, request,
                   aborted, parsed, serVars, toolVars, concVars>>

\* fetch rejects (connection failure, or a thrown value that is no Error)
FetchReject ==
    /\ pc = "fetching"
    /\ ~aborted
    /\ \E e \in TransportErrors : Throw(e)
    /\ UNCHANGED <<cfgIn, wsfunction, callParams, client, ctorError, opts, request,
                   aborted, httpResponse, bodyRead, parsed, serVars, toolVars, concVars>>

\* the deadline passes with the timer still armed: controller.abort()
TimerFire ==
    /\ timer = "armed"
    /\ timer' = "fired"
    /\ aborted' = TRUE
    /\ UNCHANGED <<pc, cfgIn, wsfunction, callParams, client, ctorError, opts, request,
                   httpResponse, bodyRead, parsed, outcome, serVars, toolVars, concVars>>

\* the aborted fetch rejects with the signal's abort reason
FetchAbort ==
    /\ pc = "fetching"
    /\ aborted
    /\ Throw(AbortReason)
    /\ UNCHANGED <<cfgIn, wsfunction, callParams, client, ctorError, opts, request,
                   aborted, httpResponse, bodyRead, parsed, serVars, toolVars, concVars>>

\* response.json() resolves: an error body throws an API error, any other
\* value is returned as data with its warnings
JsonResolve ==
    /\ pc = "reading"
    /\ \E data \in Bodies :
        /\ parsed' = data
        /\ IF isMoodleErrorResponse(data)
           THEN Throw(ApiErrorOf(data))
           ELSE /\ outcome' = [data |-> data, warnings |-> WarningsOf(data)]
                /\ pc' = "returned"
                /\ timer' = timer
    /\ UNCHANGED <<cfgIn, wsfunction, callParams, client, ctorError, opts, request,
                   aborted, httpResponse, bodyRead, serVars, toolVars, concVars>>

\* response.json() rejects: the body is not JSON, or the signal was aborted
\* while the body was being read
JsonReject ==
    /\ pc = "reading"
    /\ \E e \in BodyErrors \cup (IF aborted THEN {AbortReason} ELSE {}) : Throw(e)
    /\ UNCHANGED <<cfgIn, wsfunction, callParams, client, ctorError, opts, request,
                   aborted, httpResponse, bodyRead, parsed, serVars, toolVars, concVars>>

Next ==
    \/ Construct
    \/ ClientCall
    \/ DirectCall
    \/ FetchResolve
    \/ FetchReject
    \/ TimerFire
    \/ FetchAbort
    \/ JsonResolve
    \/ JsonReject

Spec == Init /\ [][Next]_vars

\* The runtime's guarantees: an armed timer fires, a fetch whose signal is
\* aborted rejects, and the continuation of a settled promise runs. Nothing
\* makes a response body end: response.json() may stay pending.
FairSpec == Spec /\ WF_vars(TimerFire) /\ WF_vars(FetchAbort)

SpecSerializer == InitSerializer /\ [][Serialize]_vars


----------------------------------------------------------------------------
(* Claims about the call executor and the client, checked under Spec (C4    *)
(* under FairSpec)                                                          *)

\* the values of the entries of a body that have the key
ValuesFor(body, key) ==
    LET hits == SelectSeq(body, LAMBDA e : e.k = key)
    IN [i \in DOMAIN hits |-> hits[i].v]

\* the fixed texts of the executor's messages
MessageAffixes == {"", "HTTP ", ": ", "Request timeout after ", "ms"}

\* the text holds the two parts in this order (part2 may be empty)
ContainsInOrder(text, part1, part2) ==
    \E a, b, c \in MessageAffixes : text = a \o part1 \o b \o part2 \o c

Keys(data) == {data.props[i].k : i \in DOMAIN data.props}

\* an object with a message field and at least one of exception, errorcode
IsErrorBody(data) ==
    /\ data.t = "object"
    /\ "message" \in Keys(data)
    /\ {"exception", "errorcode"} \cap Keys(data) # {}

IsApiFailure == pc = "thrown" /\ outcome.class = "MoodleApiError"

IsNetworkFailure == pc = "thrown" /\ outcome.class = "MoodleNetworkError"

\* C1: the body handed to the transport carries wstoken equal to the
\* configured token and wsfunction equal to the called function name, also
\* when params has keys named wstoken or wsfunction (with any value, null
\* included): the protocol fields override the caller's.
C1_ProtocolFieldsWin ==
    (request # Nothing /\ opts.token.t = "string") =>
        /\ ValuesFor(request.body, "wstoken") = <<opts.token.s>>
        /\ ValuesFor(request.body, "wsfunction") = <<wsfunction>>

\* C2: the URL handed to the transport is baseUrl (trailing slashes aside)
\* followed by /webservice/rest/server.php, also for a baseUrl with a path:
\* no part of baseUrl is dropped or replaced.
C2_EndpointAppended ==
    request # Nothing =>
        request.url = Join(StripTrailingSlashes(opts.baseUrl.pieces)) \o EndpointPath

\* C3 as stated: with a 2xx response and a parsed body, call fails with an
\* API failure iff the body is an object with message and at least one of
\* exception, errorcode; the failure carries the body's message, exception
\* and debug info and errorCode = the body's errorcode, or "unknown" when
\* errorcode is absent; {message: "x"} alone is returned as data.
C3_ApiFailure_Original ==
    parsed # Nothing =>
        /\ IsApiFailure <=> IsErrorBody(parsed)
        /\ IsErrorBody(parsed) =>
            /\ Str(outcome.message) = Get(parsed, "message")
            /\ outcome.exception = Get(parsed, "exception")
            /\ outcome.debugInfo = Get(parsed, "debuginfo")
            /\ outcome.errorCode = IF "errorcode" \in Keys(parsed)
                                   THEN Get(parsed, "errorcode")
                                   ELSE Str("unknown")
        /\ ~IsErrorBody(parsed) => (pc = "returned" /\ outcome.data = parsed)

\* C3 as amended: with a 2xx response and a parsed body, call fails with an
\* API failure iff the body is an object with message and at least one of
\* exception, errorcode; the failure carries the body's message converted to
\* a string, the body's exception and debug info, and errorCode = the body's
\* errorcode, or "unknown" when errorcode is absent or null; any other body,
\* {message: "x"} included, is returned as data.
C3_ApiFailure ==
    parsed # Nothing =>
        /\ IsApiFailure <=> IsErrorBody(parsed)
        /\ IsErrorBody(parsed) =>
            /\ outcome.message = JsToString(Get(parsed, "message"))
            /\ outcome.exception = Get(parsed, "exception")
            /\ outcome.debugInfo = Get(parsed, "debuginfo")
            /\ outcome.errorCode =
                 IF "errorcode" \in Keys(parsed) /\ Get(parsed, "errorcode") # Null
                 THEN Get(parsed, "errorcode")
                 ELSE Str("unknown")
        /\ ~IsErrorBody(parsed) => (pc = "returned" /\ outcome.data = parsed)

\* C3 witness: an error body whose errorcode is null has made the call fail
\* with an API failure whose errorCode is "unknown".
C3_Witness ==
    /\ IsApiFailure
    /\ parsed = Obj(<<Prop("message", Str("Invalid token")), Prop("errorcode", Null)>>)
    /\ outcome.errorCode = Str("unknown")
    /\ outcome.message = "Invalid token"

\* C4: if the transport has not resolved when the deadline timer fires, the
\* call eventually fails with a network failure whose message contains the
\* configured timeout value.
C4_TimeoutFails ==
    (timer = "fired") ~>
        (IsNetworkFailure
         /\ ContainsInOrder(outcome.message, NumberToString(opts.timeout), ""))

\* C4 witness: a call with the default timeout has failed after its timer
\* fired, with the timeout failure.
C4_Witness ==
    /\ timer = "fired"
    /\ cfgIn.timeout = Undef
    /\ IsNetworkFailure
    /\ outcome.message = "Request timeout after 30000ms"

\* C5: a call whose transport returns a non-2xx status fails with a network
\* failure whose message contains the status code and the reason phrase, and
\* the response body is never read or parsed.
C5_HttpErrorFails ==
    (httpResponse # Nothing /\ httpResponse.status \notin 200..299) =>
        /\ IsNetworkFailure
        /\ ContainsInOrder(outcome.message, NatToStr(httpResponse.status),
                           httpResponse.statusText)
        /\ ~bodyRead
        /\ parsed = Nothing

\* C5 witness: a 404 response has made the call fail without the body read.
C5_Witness ==
    /\ httpResponse # Nothing
    /\ httpResponse.status = 404
    /\ IsNetworkFailure
    /\ outcome.message = "HTTP 404: Not Found"
    /\ ~bodyRead

\* C6: every way call can fail yields an API failure or a network failure:
\* for every input and every transport behaviour (invalid baseUrl, rejection
\* with an Error or a non-Error value, non-2xx status, unparsable body, error
\* body) no other kind of exception reaches the caller.
C6_OnlyTypedFailures ==
    pc = "thrown" => outcome.class \in {"MoodleApiError", "MoodleNetworkError"}

\* C7: constructing a MoodleClient whose baseUrl or token is missing (absent
\* or empty) fails immediately, before any request is made, with a
\* MoodleValidationError that carries the offending field name.
C7_ConstructorValidates ==
    /\ (client # Nothing => ~Falsy(cfgIn.baseUrl) /\ ~Falsy(cfgIn.token))
    /\ (pc = "ctorThrown" =>
            /\ request = Nothing
            /\ ctorError.class = "MoodleValidationError"
            /\ ctorError.field = (IF Falsy(cfgIn.baseUrl) THEN "baseUrl" ELSE "token"))

\* the warnings fields of a body that are lists (at most one)
ListWarnings(data) ==
    IF data.t # "object" THEN {}
    ELSE {data.props[i].v : i \in {j \in DOMAIN data.props :
                                      /\ data.props[j].k = "warnings"
                                      /\ data.props[j].v.t = "array"}}

\* C11: on the success path call returns the parsed body unchanged as data
\* (no field removed, a warnings key included), and the result's warnings is
\* the body's warnings value exactly when the body is an object whose
\* warnings field is a list; otherwise the result has no warnings.
C11_BodyReturnedVerbatim ==
    pc = "returned" =>
        /\ outcome.data = parsed
        /\ \A w \in ListWarnings(parsed) : outcome.warnings = w
        /\ (ListWarnings(parsed) = {} => outcome.warnings = Undef)

C11_Witness ==
    /\ pc = "returned"
    /\ parsed.t = "object"
    /\ "warnings" \in Keys(parsed)
    /\ outcome.data = parsed
    /\ outcome.warnings = Arr(<<Str("w1")>>)

IsTerminal == pc \in {"returned", "thrown"}

IsPending == pc \in {"fetching", "reading"}

IsTimeoutFailure ==
    /\ IsNetworkFailure
    /\ outcome.message = "Request timeout after " \o NumberToString(opts.timeout) \o "ms"

\* C19: in every terminal state of call (success, API failure, network
\* failure) the deadline timer is disarmed, and once the transport has
\* resolved with a response before the deadline the timer never fires and
\* the call never fails with the timeout failure, whatever happens next.
C19_TimerDisarmed ==
    /\ (IsTerminal => timer # "armed")
    /\ (httpResponse # Nothing => timer = "cleared" /\ ~aborted /\ ~IsTimeoutFailure)

C19_Witness ==
    /\ pc = "thrown"
    /\ httpResponse # Nothing
    /\ bodyRead
    /\ timer = "cleared"
    /\ outcome.class = "MoodleNetworkError"

\* C20: every started call eventually completes (returns a result or fails
\* with a typed error) once its deadline has elapsed: a call cannot stay
\* pending forever, neither waiting for the response nor, after the response
\* has arrived, while the response body is being read.
C20_CallCompletes == IsPending ~> IsTerminal

----------------------------------------------------------------------------
(* What the serializer is to produce, stated over the input tree *)

IsScalar(v) == v.t \in {"boolean", "number", "string"}

RECURSIVE CountScalars(_)
RECURSIVE CountScalarsIn(_)
\* the terminal scalars (string, number, boolean) reachable in a value
CountScalars(v) ==
    IF IsScalar(v) THEN 1
    ELSE IF v.t = "array" THEN CountScalarsIn(v.items)
    ELSE IF v.t = "object" THEN CountScalarsIn([i \in DOMAIN v.props |-> v.props[i].v])
    ELSE 0

CountScalarsIn(vs) ==
    IF vs = <<>> THEN 0 ELSE CountScalars(Head(vs)) + CountScalarsIn(Tail(vs))

\* the text of array index i - 1
IndexText == <<"0", "1", "2", "3", "4", "5", "6", "7", "8", "9">>

RECURSIVE Leaves(_, _)
RECURSIVE LeavesBelow(_, _)
\* the terminal scalars of v with the path to each (keys and array indices),
\* depth first, every mapping's keys in the order listed, every array's
\* elements in ascending index order
Leaves(path, v) ==
    IF IsScalar(v) THEN <<[path |-> path, v |-> v]>>
    ELSE IF v.t = "array"
         THEN LeavesBelow(path, [i \in DOMAIN v.items |-> Prop(IndexText[i], v.items[i])])
    ELSE IF v.t = "object" THEN LeavesBelow(path, v.props)
    ELSE <<>>

LeavesBelow(path, children) ==
    IF children = <<>> THEN <<>>
    ELSE Leaves(Append(path, Head(children).k), Head(children).v)
         \o LeavesBelow(path, Tail(children))

RECURSIVE Bracketed(_)
\* [s1][s2]...[sn]
Bracketed(segs) ==
    IF segs = <<>> THEN "" ELSE "[" \o Head(segs) \o "]" \o Bracketed(Tail(segs))

\* the key of the scalar at a path: the top-level key, then one bracketed
\* segment per step (under a prefix p the top-level key itself is p[key])
KeyOfPath(prefix, path) ==
    IF prefix = "" THEN Head(path) \o Bracketed(Tail(path))
    ELSE prefix \o Bracketed(path)

\* the text of a scalar on the wire
ScalarText(v) ==
    IF v.t = "boolean" THEN (IF v.b THEN "1" ELSE "0")
    ELSE IF v.t = "number" THEN NumberToString(v.n)
    ELSE v.s

\* the entries for a sequence of leaves
EntriesOf(prefix, leaves) ==
    [i \in DOMAIN leaves |-> Entry(KeyOfPath(prefix, leaves[i].path), ScalarText(leaves[i].v))]

----------------------------------------------------------------------------
(* Claims about the serializer, checked under SpecSerializer *)

\* C8: serializeParams emits exactly one entry per terminal scalar reachable
\* in the input and none for a null or undefined value at any depth; the
\* entry of a boolean is "1" or "0"; {flag: true, missing: null} yields
\* flag=1 only.
C8_OneEntryPerScalar ==
    serPc = "done" =>
        LET leaves == Leaves(<<>>, ToJS(serParams))
        IN /\ Len(serOut) = CountScalars(serParams)
           /\ \A i \in DOMAIN serOut : serOut[i].v = ScalarText(leaves[i].v)
           /\ (serParams = ExampleFlagMissing /\ serPrefix = ""
                 => serOut = <<Entry("flag", "1")>>)

\* C8 witness: a mapping holding null beside a boolean inside an array has
\* been serialized to the boolean's entry alone.
C8_Witness ==
    /\ serPc = "done"
    /\ serParams = Obj(<<Prop("x", Arr(<<Null, Bool(FALSE)>>))>>)
    /\ serPrefix = ""
    /\ serOut = <<Entry("x[1]", "0")>>

\* C9: the key of every entry is the top-level key followed by one bracketed
\* segment per step of the path to its scalar, [i] for an array index and
\* [subkey] for an object key, at any depth, an array directly inside an
\* array included; {a: [{x: 1}, {x: 2}]} yields a[0][x]=1 then a[1][x]=2.
C9_BracketedKeys ==
    serPc = "done" =>
        LET leaves == Leaves(<<>>, ToJS(serParams))
        IN /\ Len(serOut) = Len(leaves)
           /\ \A i \in DOMAIN serOut : serOut[i].k = KeyOfPath(serPrefix, leaves[i].path)
           /\ (serParams = ExampleArrayOfObjects /\ serPrefix = ""
                 => serOut = <<Entry("a[0][x]", "1"), Entry("a[1][x]", "2")>>)

\* C9 witness: a scalar in an array nested directly in an array got the key
\* k[i][j].
C9_Witness ==
    /\ serPc = "done"
    /\ serParams = Obj(<<Prop("x", Arr(<<Arr(<<Num(7)>>)>>))>>)
    /\ serPrefix = ""
    /\ serOut = <<Entry("x[0][0]", "7")>>

\* C10: the entries are emitted in the order of the depth-first traversal
\* that visits the keys of every mapping in their insertion order and the
\* elements of every array in ascending index order, whatever the key names.
C10_InsertionOrder ==
    serPc = "done" => serOut = EntriesOf(serPrefix, Leaves(<<>>, serParams))

----------------------------------------------------------------------------
(* generate-openapi.mjs: the schema transformer *)

\* Boolean(v): what `!v`, `v && x` and `v || x` test
ToBoolean(v) ==
    CASE v.t \in {"undefined", "null"} -> FALSE
      [] v.t = "boolean" -> v.b
      [] v.t = "number" -> v.n # 0
      [] v.t = "string" -> v.s # ""
      [] OTHER -> TRUE

\* a || b
OrElse(a, b) == IF ToBoolean(a) THEN a ELSE b

\* a TypeError thrown by the generator, in place of its result
Thrown(message) ==
    [t |-> "throw", error |-> BuiltinError("TypeError", "TypeError", message)]

\* { type: "object", additionalProperties: true }
OpenObject ==
    Obj(<<Prop("type", Str("object")), Prop("additionalProperties", Bool(TRUE))>>)

\* ...(cond && { [key]: value }) inside an object literal
SpreadIf(cond, key, value) == IF ToBoolean(cond) THEN <<Prop(key, value)>> ELSE <<>>

\* ...(schema.description && { description: schema.description })
DescriptionOf(schema) ==
    SpreadIf(Get(schema, "description"), "description", Get(schema, "description"))

\* ...(schema.default !== undefined && { default: schema.default }) and, for
\* the types that take it, ...(schema.nullable && { nullable: true })
DefaultAndNullableOf(schema, nullable) ==
    (IF Get(schema, "default") # Undef
     THEN <<Prop("default", Get(schema, "default"))>>
     ELSE <<>>)
    \o (IF nullable THEN SpreadIf(Get(schema, "nullable"), "nullable", Bool(TRUE))
        ELSE <<>>)

\* required only when the object's required list names the key
IsRequired_ListedOnly(schema, key, value) ==
    LET required == Get(schema, "required")
    IN IF required.t \in {"undefined", "null"}
       THEN (IF value.t \in {"undefined", "null"}
             THEN Thrown("Cannot read properties of " \o value.t \o " (reading 'required')")
             ELSE Bool(FALSE))
       ELSE IF required.t # "array" THEN Thrown("schema.required?.includes is not a function")
       ELSE IF \E i \in DOMAIN required.items : required.items[i] = Str(key)
            THEN Bool(TRUE)
       ELSE IF value.t \in {"undefined", "null"}
            THEN Thrown("Cannot read properties of " \o value.t \o " (reading 'required')")
       ELSE Bool(FALSE)

\* schema.required?.includes(key) || value.required === true: a boolean, or
\* the TypeError thrown on the way: includes is no function of a required
\* that is neither absent nor an array (the substring test on a required
\* that is a string is left out: no schema has one), and null has no
\* property to read
IsRequired(schema, key, value) ==
    LET required == Get(schema, "required")
        listed == required.t = "array"
                  /\ \E i \in DOMAIN required.items : required.items[i] = Str(key)
    IN IF required.t \notin {"undefined", "null", "array"}
       THEN Thrown("schema.required?.includes is not a function")
       ELSE IF listed THEN Bool(TRUE)
       ELSE IF value.t \in {"undefined", "null"}
            THEN Thrown("Cannot read properties of " \o value.t \o " (reading 'required')")
       ELSE Bool(Get(value, "required") = Bool(TRUE))

RECURSIVE moodleTypeToOpenAPI(_)
RECURSIVE transformProperties(_, _, _, _)

\* the loop over Object.entries(schema.properties): the properties and the
\* required list built so far, extended by the entries left; an exception
\* ends it
transformProperties(schema, entries, properties, required) ==
    IF entries = <<>> THEN [t |-> "built", properties |-> properties, required |-> required]
    ELSE LET key == Head(entries).k
             value == Head(entries).v
             property == moodleTypeToOpenAPI(value)
             isRequired == IsRequired(schema, key, value)
         IN IF property.t = "throw" THEN property
            ELSE IF isRequired.t = "throw" THEN isRequired
            ELSE transformProperties(schema, Tail(entries),
                    DefineProp(properties, key, property),
                    IF isRequired.b THEN Append(required, Str(key)) ELSE required)

\* moodleTypeToOpenAPI(schema, components, prefix): the OpenAPI schema of a
\* Moodle schema node, or the exception thrown; components and prefix are
\* passed along and never read. A property of a primitive (schema.type of a
\* string, say) is undefined.
moodleTypeToOpenAPI(schema) ==
    IF ~ToBoolean(schema) THEN OpenObject
    ELSE LET type == Get(schema, "type")
         IN CASE type \in {Str("integer"), Str("number"), Str("string")} ->
                    Obj(<<Prop("type", type)>> \o DescriptionOf(schema)
                        \o DefaultAndNullableOf(schema, TRUE))
              [] type = Str("boolean") ->
                    Obj(<<Prop("type", type)>> \o DescriptionOf(schema)
                        \o DefaultAndNullableOf(schema, FALSE))
              [] type = Str("array") ->
                    LET items == IF ToBoolean(Get(schema, "items"))
                                 THEN moodleTypeToOpenAPI(Get(schema, "items"))
                                 ELSE OpenObject
                    IN IF items.t = "throw" THEN items
                       ELSE Obj(<<Prop("type", type), Prop("items", items)>>
                                \o DescriptionOf(schema))
              [] type = Str("object") ->
                    LET properties == Get(schema, "properties")
                    IN IF ~ToBoolean(properties)
                          \/ ~IsObjectLike(properties)
                          \/ ObjectEntries(properties) = <<>>
                       THEN Obj(OpenObject.props \o DescriptionOf(schema))
                       ELSE LET built == transformProperties(schema,
                                            ObjectEntries(properties), <<>>, <<>>)
                            IN IF built.t = "throw" THEN built
                               ELSE Obj(<<Prop("type", type),
                                          Prop("properties", Obj(built.properties))>>
                                        \o (IF built.required # <<>>
                                            THEN <<Prop("required", Arr(built.required))>>
                                            ELSE <<>>)
                                        \o DescriptionOf(schema))
              [] OTHER -> OpenObject
----------------------------------------------------------------------------
(* Texts as sequences of characters *)

\* the printable ASCII characters, from code 32 (space) to code 126 (~); the
\* grave accent (code 96), which a TLA+ string cannot hold, is spelled out
Ascii ==
    <<" ", "!", "\"", "#", "$", "%", "&", "'", "(", ")", "*", "+", ",", "-", ".", "/",
      "0", "1", "2", "3", "4", "5", "6", "7", "8", "9", ":", ";", "<", "=", ">", "?",
      "@", "A", "B", "C", "D", "E", "F", "G", "H", "I", "J", "K", "L", "M", "N", "O",
      "P", "Q", "R", "S", "T", "U", "V", "W", "X", "Y", "Z", "[", "\\", "]", "^", "_",
      "grave", "a", "b", "c", "d", "e", "f", "g", "h", "i", "j", "k", "l", "m", "n", "o",
      "p", "q", "r", "s", "t", "u", "v", "w", "x", "y", "z", "{", "|", "}", "~">>

\* c.charCodeAt(0) of a printable ASCII character, a tab or a line feed
CodeOf(c) ==
    IF c = "\t" THEN 9
    ELSE IF c = "\n" THEN 10
    ELSE 31 + CHOOSE i \in DOMAIN Ascii : Ascii[i] = c

\* the character is in the range [from-to] of a regular expression
InRange(c, from, to) == CodeOf(c) \in CodeOf(from)..CodeOf(to)

\* c.toUpperCase()
ToUpperCase(c) == IF InRange(c, "a", "z") THEN Ascii[CodeOf(c) - 32 - 31] ELSE c

\* c.toLowerCase()
ToLowerCase(c) == IF InRange(c, "A", "Z") THEN Ascii[CodeOf(c) + 32 - 31] ELSE c

RECURSIVE Split(_, _)
\* text.split(sep) for a one-character separator
Split(text, sep) ==
    IF \A i \in DOMAIN text : text[i] # sep THEN <<text>>
    ELSE LET at == CHOOSE i \in DOMAIN text :
                        text[i] = sep /\ \A j \in 1..(i - 1) : text[j] # sep
         IN <<SubSeq(text, 1, at - 1)>> \o Split(SubSeq(text, at + 1, Len(text)), sep)

RECURSIVE Concat(_)
\* parts.join("")
Concat(parts) == IF parts = <<>> THEN <<>> ELSE Head(parts) \o Concat(Tail(parts))

RECURSIVE SortTexts(_)
\* texts.sort() of distinct texts, as an insertion sort; a < b as JavaScript
\* compares strings: by code units, a proper prefix first
SortTexts(texts) ==
    IF texts = <<>> THEN <<>>
    ELSE LET Less(a, b) ==
                \E i \in 1..Len(b) :
                    /\ \A j \in 1..(i - 1) : j <= Len(a) /\ a[j] = b[j]
                    /\ \/ i = Len(a) + 1
                       \/ i <= Len(a) /\ CodeOf(a[i]) < CodeOf(b[i])
             rest == SortTexts(Tail(texts))
             before == SelectSeq(rest, LAMBDA t : Less(t, Head(texts)))
             after == SelectSeq(rest, LAMBDA t : ~Less(t, Head(texts)))
         IN before \o <<Head(texts)>> \o after

----------------------------------------------------------------------------
(* generate-openapi.mjs: names and tags *)

\* toPascalCase(str): each part as part.charAt(0).toUpperCase() +
\* part.slice(1), joined
toPascalCase(str) ==
    LET parts == Split(str, "_")
    IN Concat([i \in DOMAIN parts |->
                IF parts[i] = <<>> THEN <<>>
                ELSE <<ToUpperCase(Head(parts[i]))>> \o Tail(parts[i])])

\* getTagFromFunctionName(name)
getTagFromFunctionName(name) ==
    LET parts == Split(name, "_")
    IN IF Len(parts) >= 2 THEN parts[1] \o <<"_">> \o parts[2]
       ELSE IF parts[1] # <<>> THEN parts[1]
       ELSE <<"m", "i", "s", "c">>

RECURSIVE TagSet(_, _)
\* tagSet after tagSet.add(getTagFromFunctionName(func.name)) for each of
\* the functions: the distinct tags in the order they first come up
TagSet(functions, tagSet) ==
    IF functions = <<>> THEN tagSet
    ELSE LET tag == getTagFromFunctionName(Head(functions).name)
         IN TagSet(Tail(functions),
                   IF \E i \in DOMAIN tagSet : tagSet[i] = tag THEN tagSet
                   ELSE Append(tagSet, tag))

\* const tagDescriptions = { ... }: the descriptions of the known tags
tagDescriptions ==
    <<
       Prop("core_auth", "Authentication functions"),
       Prop("core_blog", "Blog functions"),
       Prop("core_calendar", "Calendar functions"),
       Prop("core_cohort", "Cohort management"),
       Prop("core_comment", "Comment functions"),
       Prop("core_competency", "Competency framework"),
       Prop("core_completion", "Course completion"),
       Prop("core_course", "Course management"),
       Prop("core_customfield", "Custom fields"),
       Prop("core_enrol", "Enrollment functions"),
       Prop("core_fetch", "Data fetching"),
       Prop("core_files", "File management"),
       Prop("core_filters", "Filter functions"),
       Prop("core_form", "Form functions"),
       Prop("core_grades", "Grade functions"),
       Prop("core_group", "Group management"),
       Prop("core_message", "Messaging functions"),
       Prop("core_notes", "Notes functions"),
       Prop("core_output", "Output functions"),
       Prop("core_question", "Question bank"),
       Prop("core_rating", "Rating functions"),
       Prop("core_reportbuilder", "Report builder"),
       Prop("core_role", "Role management"),
       Prop("core_search", "Search functions"),
       Prop("core_session", "Session management"),
       Prop("core_table", "Table functions"),
       Prop("core_tag", "Tag functions"),
       Prop("core_user", "User management"),
       Prop("core_webservice", "Web service functions"),
       Prop("core_xapi", "xAPI functions"),
       Prop("mod_assign", "Assignment module"),
       Prop("mod_book", "Book module"),
       Prop("mod_chat", "Chat module"),
       Prop("mod_choice", "Choice module"),
       Prop("mod_data", "Database module"),
       Prop("mod_feedback", "Feedback module"),
       Prop("mod_folder", "Folder module"),
       Prop("mod_forum", "Forum module"),
       Prop("mod_glossary", "Glossary module"),
       Prop("mod_h5pactivity", "H5P activity module"),
       Prop("mod_imscp", "IMS content package"),
       Prop("mod_label", "Label module"),
       Prop("mod_lesson", "Lesson module"),
       Prop("mod_lti", "LTI module"),
       Prop("mod_page", "Page module"),
       Prop("mod_quiz", "Quiz module"),
       Prop("mod_resource", "Resource module"),
       Prop("mod_scorm", "SCORM module"),
       Prop("mod_survey", "Survey module"),
       Prop("mod_url", "URL module"),
       Prop("mod_wiki", "Wiki module"),
       Prop("mod_workshop", "Workshop module"),
       Prop("tool_dataprivacy", "Data privacy tools"),
       Prop("tool_lp", "Learning plans"),
       Prop("tool_mobile", "Mobile app support"),
       Prop("tool_policy", "Policy management"),
       Prop("tool_usertours", "User tours"),
       Prop("enrol_guest", "Guest enrollment"),
       Prop("enrol_manual", "Manual enrollment"),
       Prop("enrol_self", "Self enrollment"),
       Prop("message_airnotifier", "Airnotifier messaging"),
       Prop("message_popup", "Popup messaging"),
       Prop("gradereport_grader", "Grader report"),
       Prop("gradereport_overview", "Overview report"),
       Prop("gradereport_user", "User grade report")
    >>

\* { name: tag, description: tagDescriptions[tag] || `${tag} functions` }
TagObject(tag) ==
    Obj(<<Prop("name", Str(Join(tag))),
          Prop("description",
               Str(IF \E i \in DOMAIN tagDescriptions : tagDescriptions[i].k = Join(tag)
                   THEN (CHOOSE p \in {tagDescriptions[i] : i \in DOMAIN tagDescriptions} :
                            p.k = Join(tag)).v
                   ELSE Join(tag) \o " functions"))>>)

\* the tags in the order they first come up, unsorted
generateTags_Unsorted(functions) ==
    LET tags == TagSet(functions, <<>>)
    IN Arr([i \in DOMAIN tags |-> TagObject(tags[i])])

\* generateTags(functions)
generateTags(functions) ==
    LET tags == SortTexts(TagSet(functions, <<>>))
    IN Arr([i \in DOMAIN tags |-> TagObject(tags[i])])

----------------------------------------------------------------------------
(* generate-openapi.mjs: the OpenAPI document *)

\* a reference into the definitions section of a Swagger 2 document
Ref_Definitions(name) == Obj(<<Prop("$ref", Str("#/definitions/" \o name))>>)

\* { $ref: `#/components/schemas/${name}` }
Ref(name) == Obj(<<Prop("$ref", Str("#/components/schemas/" \o name))>>)

\* { description, content: { "application/json": { schema } } }
JsonResponse(description, schema) ==
    Obj(<<Prop("description", Str(description)),
          Prop("content", Obj(<<Prop("application/json",
                                     Obj(<<Prop("schema", schema)>>))>>))>>)

\* security: [{ wstoken: [] }]
Security == Arr(<<Obj(<<Prop("wstoken", Arr(<<>>))>>)>>)

\* a property of type string or integer with a description
Described(type, description) ==
    Obj(<<Prop("type", Str(type)), Prop("description", Str(description))>>)

\* components.schemas.MoodleError = ...; components.schemas.MoodleWarning = ...
CommonSchemas(schemas) ==
    DefineAll(schemas, <<
        Prop("MoodleError",
             Obj(<<Prop("type", Str("object")),
                   Prop("properties", Obj(<<
                       Prop("exception", Described("string", "The exception class name")),
                       Prop("errorcode", Described("string", "The error code")),
                       Prop("message", Described("string", "Human-readable error message")),
                       Prop("debuginfo", Described("string",
                                "Debug information (only in development mode)"))>>)),
                   Prop("required", Arr(<<Str("message")>>))>>)),
        Prop("MoodleWarning",
             Obj(<<Prop("type", Str("object")),
                   Prop("properties", Obj(<<
                       Prop("item", Described("string", "Item that triggered the warning")),
                       Prop("itemid", Described("integer", "ID of the item")),
                       Prop("warningcode", Described("string", "Warning code")),
                       Prop("message", Described("string", "Warning message"))>>)),
                   Prop("required", Arr(<<Str("warningcode"), Str("message")>>))>>))>>)

\* paths[path].post for a function
Operation(func, requestSchemaName, responseSchemaName) ==
    Obj(<<Prop("operationId", Str(Join(func.name))),
          Prop("summary", OrElse(func.description, Str("Call " \o Join(func.name)))),
          Prop("description", OrElse(func.description, Undef)),
          Prop("tags", Arr(<<Str(Join(getTagFromFunctionName(func.name)))>>))>>
        \o SpreadIf(func.capabilities, "x-moodle-capabilities", func.capabilities)
        \o (IF func.ajax # Undef THEN <<Prop("x-moodle-ajax", func.ajax)>> ELSE <<>>)
        \o (IF func.loginrequired # Undef
            THEN <<Prop("x-moodle-login-required", func.loginrequired)>>
            ELSE <<>>)
        \o <<Prop("requestBody",
                  Obj(<<Prop("required", Bool(TRUE)),
                        Prop("content",
                             Obj(<<Prop("application/x-www-form-urlencoded",
                                        Obj(<<Prop("schema",
                                                   Ref(requestSchemaName))>>))>>))>>)),
             Prop("responses",
                  Obj(DefineAll(<<>>, <<
                      Prop("200", JsonResponse("Successful response",
                                               Ref(responseSchemaName))),
                      Prop("400", JsonResponse("Bad request - invalid parameters",
                                               Ref("MoodleError"))),
                      Prop("401", JsonResponse("Unauthorized - invalid or missing token",
                                               Ref("MoodleError")))>>))),
             Prop("security", Security)>>)

RECURSIVE BuildFunctions(_, _, _)
\* the loop over schema.functions: components.schemas and paths built so
\* far, extended by the functions left; an exception ends it. The request
\* schema is the parameters transformed, or an empty object schema; the
\* response schema is the returns transformed, or a nullable object.
BuildFunctions(functions, schemas, paths) ==
    IF functions = <<>> THEN [t |-> "built", schemas |-> schemas, paths |-> paths]
    ELSE LET func == Head(functions)
             pascalName == Join(toPascalCase(func.name))
             requestSchemaName == pascalName \o "Request"
             responseSchemaName == pascalName \o "Response"
             requestSchema ==
                IF ToBoolean(func.parameters) THEN moodleTypeToOpenAPI(func.parameters)
                ELSE Obj(<<Prop("type", Str("object")), Prop("properties", Obj(<<>>))>>)
             responseSchema ==
                IF ToBoolean(func.returns) THEN moodleTypeToOpenAPI(func.returns)
                ELSE Obj(<<Prop("type", Str("object")), Prop("nullable", Bool(TRUE))>>)
             path == "/webservice/rest/" \o Join(func.name)
         IN IF requestSchema.t = "throw" THEN requestSchema
            ELSE IF responseSchema.t = "throw" THEN responseSchema
            ELSE BuildFunctions(Tail(functions),
                    DefineProp(DefineProp(schemas, requestSchemaName, requestSchema),
                               responseSchemaName, responseSchema),
                    DefineProp(paths, path,
                        Obj(<<Prop("post", Operation(func, requestSchemaName,
                                                     responseSchemaName))>>)))

\* generateOpenAPISpec(schema, schemaName) run at the time now, which
\* new Date().toISOString() reads: the document, or the exception thrown
generateOpenAPISpec(schema, now) ==
    LET functions == IF ToBoolean(schema.functions) THEN schema.functions.items ELSE <<>>
        built == BuildFunctions(functions, <<>>, <<>>)
        info ==
            Obj(<<Prop("title", Str("Moodle Web Services API")),
                  Prop("version", OrElse(schema.moodleVersion, Str("unknown"))),
                  Prop("description", Str(
                      "Auto-generated OpenAPI specification for Moodle Web Services."
                      \o "\n\nMoodle Release: "
                      \o JsToString(OrElse(schema.moodleRelease, Str("unknown")))
                      \o "\nGenerated: " \o now)),
                  Prop("contact", Obj(<<Prop("name", Str("Moodle")),
                                        Prop("url", Str("https://moodle.org"))>>)),
                  Prop("license", Obj(<<
                      Prop("name", Str("GPL-3.0")),
                      Prop("url", Str("https://www.gnu.org/licenses/gpl-3.0.html"))>>))>>)
        servers ==
            Arr(<<Obj(<<Prop("url", Str("{baseUrl}")),
                        Prop("description", Str("Moodle instance")),
                        Prop("variables", Obj(<<Prop("baseUrl", Obj(<<
                            Prop("default", Str("https://moodle.example.com")),
                            Prop("description",
                                 Str("The base URL of your Moodle installation"))>>))>>))>>)>>)
        securitySchemes ==
            Obj(<<Prop("wstoken", Obj(<<
                Prop("type", Str("apiKey")),
                Prop("in", Str("query")),
                Prop("name", Str("wstoken")),
                Prop("description", Str(
                    "Web service token. Generate in Moodle: Site administration > "
                    \o "Plugins > Web services > Manage tokens"))>>))>>)
    IN IF built.t = "throw" THEN built
       ELSE Obj(<<Prop("openapi", Str("3.1.0")),
                  Prop("info", info),
                  Prop("servers", servers),
                  Prop("security", Security),
                  Prop("tags", generateTags(functions)),
                  Prop("paths", Obj(built.paths)),
                  Prop("components",
                       Obj(<<Prop("schemas", Obj(CommonSchemas(built.schemas))),
                             Prop("securitySchemes", securitySchemes)>>))>>)
----------------------------------------------------------------------------
(* Inputs of the generator: schema trees as the extraction script writes   *)
(* them (extract-ws.php), and schema documents                             *)

\* largest number of nodes in a generated schema tree
MaxSchemaNodes == 3

\* largest number of functions in a generated schema document
MaxFunctions == 2

\* extractValue: type, description, required, and default, nullable if set
ValueNode(type, description, required, default, nullable) ==
    ObjectOf(<<Prop("type", Str(type)), Prop("description", Str(description)),
               Prop("required", Bool(required)), Prop("default", default),
               Prop("nullable", nullable)>>)

\* extractMultipleStructure: items is left out when there is no content
ArrayNode(items) ==
    ObjectOf(<<Prop("type", Str("array")), Prop("description", Str("")),
               Prop("items", items)>>)

\* extractSingleStructure / external_function_parameters: required is an
\* array of names, or left out (Undef)
ObjectNode(properties, required) ==
    ObjectOf(<<Prop("type", Str("object")), Prop("description", Str("")),
               Prop("properties", properties), Prop("required", required)>>)

\* the nodes without children: null is what extractStructure(null) returns,
\* type unknown its fallback for a description of an unknown class, [] how
\* PHP encodes an empty properties array
SchemaLeaves ==
    {Null, Obj(<<Prop("type", Str("unknown")), Prop("class", Str("external_files"))>>),
     ArrayNode(Undef), ObjectNode(Arr(<<>>), Undef),
     ValueNode("integer", "Course ID", TRUE, Undef, Undef),
     ValueNode("string", "", FALSE, Undef, Undef)}

\* the object nodes whose property values are the nodes of f: under every
\* sequence of distinct names, with no required list (extractSingleStructure
\* leaves an empty list out) and with every sub-list that is not empty
ObjectNodesOver(f) ==
    LET names == {"id", "tags"}
        keySeqs == {ks \in [DOMAIN f -> names] :
                        \A i, j \in DOMAIN f : i # j => ks[i] # ks[j]}
        RequiredLists(ks) ==
            {Undef} \cup {Arr(SelectSeq([i \in DOMAIN ks |-> Str(ks[i])],
                                        LAMBDA k : k.s \in sub)) :
                            sub \in (SUBSET {ks[i] : i \in DOMAIN ks}) \ {{}}}
    IN UNION {{ObjectNode(Obj([i \in DOMAIN f |-> Prop(ks[i], f[i])]), required) :
                    required \in RequiredLists(ks)} :
              ks \in keySeqs}

RECURSIVE SchemaTreesOfSize(_)
RECURSIVE SchemaForestsOfSize(_, _)

\* the sequences of k schema trees with n nodes in all
SchemaForestsOfSize(k, n) ==
    IF k = 0 THEN (IF n = 0 THEN {<<>>} ELSE {})
    ELSE UNION {{<<v>> \o f : v \in SchemaTreesOfSize(s),
                              f \in SchemaForestsOfSize(k - 1, n - s)} :
                s \in 1..n}

\* the schema trees with exactly n nodes
SchemaTreesOfSize(n) ==
    IF n = 1 THEN SchemaLeaves
    ELSE {ArrayNode(items) : items \in SchemaTreesOfSize(n - 1)}
         \cup UNION {UNION {ObjectNodesOver(f) : f \in SchemaForestsOfSize(k, n - 1)} :
                     k \in 1..2}

\* an object with a required scalar and an optional array of objects
ExampleRequiredOptional ==
    ObjectNode(Obj(<<
        Prop("id", ValueNode("integer", "Course ID", TRUE, Undef, Undef)),
        Prop("tags", ArrayNode(ObjectNode(Obj(<<
            Prop("id", ValueNode("string", "", FALSE, Undef, Undef))>>), Undef)))>>),
        Arr(<<Str("id")>>))

\* the scalar nodes extractValue writes: of every type of its type map, with
\* and without a description, required, optional, or optional with a
\* default (which may be null), and nullable or not
ScalarNodes ==
    {ValueNode(type, description, rd[1], rd[2], nullable) :
        type \in {"integer", "number", "boolean", "string"},
        description \in {"", "Course ID"},
        rd \in {<<TRUE, Undef>>, <<FALSE, Undef>>, <<FALSE, Num(0)>>, <<FALSE, Null>>},
        nullable \in {Undef, Bool(TRUE)}}

\* the trees handed to moodleTypeToOpenAPI: no argument, every scalar node,
\* and every tree of at most max nodes
SchemaRoots(max) ==
    {Undef, ExampleRequiredOptional} \cup ScalarNodes
    \cup UNION {SchemaTreesOfSize(n) : n \in 1..max}

\* the function names tried
FunctionNames ==
    {<<"c", "o", "r", "e", "_", "c", "o", "u", "r", "s", "e", "_",
       "g", "e", "t", "_", "c", "o", "u", "r", "s", "e", "s">>,
     <<"c", "o", "r", "e">>,
     <<"M", "o", "d", "_", "a">>,
     <<"m", "o", "d", "_", "a", "_", "b">>,
     <<"m", "o", "d", "_", "a", "_", "_", "b">>}

\* a function as extract-ws.php describes it
FullFunction(name) ==
    [name |-> name, description |-> Str("Return course details"),
     capabilities |-> Str("moodle/course:view"), ajax |-> Bool(TRUE),
     loginrequired |-> Bool(TRUE), parameters |-> ExampleRequiredOptional,
     returns |-> ArrayNode(ObjectNode(Obj(<<
                    Prop("id", ValueNode("integer", "Course ID", TRUE, Undef, Undef))>>),
                    Arr(<<Str("id")>>)))]

\* a function described by its name alone
BareFunction(name) ==
    [name |-> name, description |-> Str(""), capabilities |-> Str(""), ajax |-> Undef,
     loginrequired |-> Undef, parameters |-> Undef, returns |-> Null]

\* every name described by its name alone, those of three or four segments
\* in full as well
FunctionDescriptors ==
    {BareFunction(name) : name \in FunctionNames}
    \cup {FullFunction(name) : name \in
            {name \in FunctionNames : Len(Split(name, "_")) \in {3, 4}}}

\* the schema documents: with and without version and release, without a
\* functions list and with every list of at most max functions
SchemaDocuments(max) ==
    {[moodleVersion |-> head[1], moodleRelease |-> head[2], functions |-> functions] :
        head \in {<<Str("2024042200"), Str("4.4")>>, <<Undef, Undef>>},
        functions \in {Undef} \cup {Arr(fs) : fs \in UNION {[1..n -> FunctionDescriptors] :
                                                            n \in 0..max}}}

----------------------------------------------------------------------------
(* The generator harness: moodleTypeToOpenAPI on one schema tree, or        *)
(* generateOpenAPISpec on one schema document, run once and once again     *)

InitGenerator ==
    /\ genPc = "ready"
    /\ \/ genNode \in SchemaRoots(MaxSchemaNodes) /\ genDoc = Nothing
       \/ genNode = Nothing /\ genDoc \in SchemaDocuments(MaxFunctions)
    /\ genOut = Nothing
    /\ genPrev = Nothing
    /\ SerializerIdle
    /\ CallIdle
    /\ EmitterIdle
    /\ ConcurrentIdle

\* const out = moodleTypeToOpenAPI(node, components, prefix)
Transform ==
    /\ genPc = "ready"
    /\ genNode # Nothing
    /\ genOut' = moodleTypeToOpenAPI(genNode)
    /\ genPc' = "done"
    /\ UNCHANGED <<genNode, genDoc, genPrev, serVars, callVars, yamlVars, concVars>>

\* const openapi = generateOpenAPISpec(schema, schemaName), a first and a
\* second time on the same document; now is what new Date().toISOString()
\* returns during the run
Generate ==
    /\ genDoc # Nothing
    /\ genPrev = Nothing
    /\ \E now \in {"2026-01-01T00:00:00.000Z", "2026-06-15T12:30:00.000Z"} :
            genOut' = generateOpenAPISpec(genDoc, now)
    /\ genPrev' = genOut
    /\ genPc' = "done"
    /\ UNCHANGED <<genNode, genDoc, serVars, callVars, yamlVars, concVars>>

SpecGenerator == InitGenerator /\ [][Transform \/ Generate]_vars

----------------------------------------------------------------------------
(* Claims about the generator, checked under SpecGenerator *)

\* a run of moodleTypeToOpenAPI has returned
Transformed == genPc = "done" /\ genNode # Nothing /\ genOut.t # "throw"

\* the latest run of generateOpenAPISpec has returned a document
Generated == genPc = "done" /\ genDoc # Nothing /\ genOut.t # "throw"

\* the functions of the schema document
FunctionsOf(doc) == IF doc.functions.t = "array" THEN doc.functions.items ELSE <<>>

RECURSIVE RefsIn(_)
\* the targets of the $ref properties anywhere inside a value
RefsIn(v) ==
    IF v.t = "object"
    THEN UNION {IF v.props[i].k = "$ref" THEN {v.props[i].v.s} ELSE RefsIn(v.props[i].v) :
                i \in DOMAIN v.props}
    ELSE IF v.t = "array" THEN UNION {RefsIn(v.items[i]) : i \in DOMAIN v.items}
    ELSE {}

\* C12: in the document generateOpenAPISpec produces for any schema document
\* (any list of functions, an empty one and one with repeated or colliding
\* names included) every $ref that occurs in paths names a key that is
\* present in components.schemas.
C12_RefsResolve ==
    Generated =>
        \A ref \in RefsIn(Get(genOut, "paths")) :
            \E name \in Keys(Get(Get(genOut, "components"), "schemas")) :
                ref = "#/components/schemas/" \o name

\* two functions whose names differ and whose schema names collide
C12_Witness ==
    /\ Generated
    /\ Len(FunctionsOf(genDoc)) = 2
    /\ Cardinality(Keys(Get(genOut, "paths"))) = 2
    /\ Keys(Get(Get(genOut, "components"), "schemas"))
            = {"ModABRequest", "ModABResponse", "MoodleError", "MoodleWarning"}
    /\ "#/components/schemas/ModABRequest" \in RefsIn(Get(genOut, "paths"))

\* the names of the properties of an object node that the source marks
\* required: listed in the node's required, or required = true themselves
MarkedRequired(node) ==
    LET properties == Get(node, "properties").props
        listed == IF Get(node, "required").t = "array"
                  THEN {Get(node, "required").items[i] :
                            i \in DOMAIN Get(node, "required").items}
                  ELSE {}
        marked == SelectSeq(properties,
                    LAMBDA p : Str(p.k) \in listed \/ Get(p.v, "required") = Bool(TRUE))
    IN [i \in DOMAIN marked |-> Str(marked[i].k)]

\* the required list of a generated schema, empty when it has none
GeneratedRequired(out) ==
    IF "required" \in Keys(out) THEN Get(out, "required").items ELSE <<>>

\* an object node with at least one property
HasProperties(node) ==
    /\ Get(node, "type") = Str("object")
    /\ Get(node, "properties").t = "object"
    /\ Get(node, "properties").props # <<>>

RECURSIVE RequiredAgrees(_, _)
\* at the node and at every node below it, the generated required list is
\* the list of the names marked required, in the order of the properties
RequiredAgrees(node, out) ==
    IF HasProperties(node)
    THEN /\ GeneratedRequired(out) = MarkedRequired(node)
         /\ \A i \in DOMAIN Get(node, "properties").props :
                RequiredAgrees(Get(node, "properties").props[i].v,
                               Get(out, "properties").props[i].v)
    ELSE IF Get(node, "type") = Str("array") /\ Get(node, "items") # Undef
         THEN RequiredAgrees(Get(node, "items"), Get(out, "items"))
    ELSE TRUE

IsFallbackNode(node) ==
    \/ node \in {Undef, Null}
    \/ Get(node, "type") \notin {Str("integer"), Str("number"), Str("boolean"),
                                  Str("string"), Str("array"), Str("object")}

\* C14: the schema transformer never fails: a node that is missing, null or
\* of an unrecognized type - at the root, as an array's items or as the
\* value of an object property - is mapped to the permissive open object
\* and the transformation of the rest of the tree completes.
C14_NeverFails ==
    (genPc = "done" /\ genNode # Nothing) =>
        /\ genOut.t # "throw"
        /\ (IsFallbackNode(genNode) => genOut = OpenObject)

\* C15: generateOpenAPISpec is deterministic: two runs on the same schema
\* document produce identical documents; no field of the output depends on
\* anything but the input, such as the time of the run.
C15_Deterministic == (genDoc # Nothing /\ genPrev # Nothing) => genOut = genPrev

\* the tag the function name stands for: its first two segments, or its
\* first segment when it has only one
DerivedTag(name) ==
    LET parts == Split(name, "_")
    IN IF Len(parts) = 1 THEN parts[1] ELSE parts[1] \o <<"_">> \o parts[2]

RECURSIVE Precedes(_, _)
\* a comes before b in lexicographic order
Precedes(a, b) ==
    IF b = <<>> THEN FALSE
    ELSE IF a = <<>> THEN TRUE
    ELSE IF Head(a) = Head(b) THEN Precedes(Tail(a), Tail(b))
    ELSE CodeOf(Head(a)) < CodeOf(Head(b))

\* the names of the document's tags, in order
TagNames(doc) ==
    [i \in DOMAIN Get(doc, "tags").items |-> Get(Get(doc, "tags").items[i], "name").s]

\* the tags attached to the operations in paths
OperationTags(doc) ==
    UNION {{Get(Get(p.v, "post"), "tags").items[i].s :
                i \in DOMAIN Get(Get(p.v, "post"), "tags").items} :
           p \in {Get(doc, "paths").props[j] : j \in DOMAIN Get(doc, "paths").props}}

\* C18: the tags list of the generated document is exactly the set of tags
\* derived from the function names (the first two underscore-delimited
\* segments, or the first segment when there is only one), without
\* duplicates and in ascending lexicographic order, so the tag attached to
\* every operation in paths appears exactly once in the list.
C18_TagsSorted ==
    Generated =>
        LET derived == {DerivedTag(FunctionsOf(genDoc)[i].name) :
                            i \in DOMAIN FunctionsOf(genDoc)}
            names == TagNames(genOut)
        IN /\ {names[i] : i \in DOMAIN names} = {Join(tag) : tag \in derived}
           /\ Len(names) = Cardinality(derived)
           /\ \A i, j \in DOMAIN names :
                i < j => \E a, b \in derived :
                            Join(a) = names[i] /\ Join(b) = names[j] /\ Precedes(a, b)
           /\ \A tag \in OperationTags(genOut) :
                Cardinality({i \in DOMAIN names : names[i] = tag}) = 1

\* core before Mod_a in the document, Mod_a before core in the tags
C18_Witness ==
    /\ Generated
    /\ Len(FunctionsOf(genDoc)) = 2
    /\ FunctionsOf(genDoc)[1].name = <<"c", "o", "r", "e">>
    /\ TagNames(genOut) = <<"Mod_a", "core">>
    /\ OperationTags(genOut) = {"Mod_a", "core"}

\* the schema that components.schemas holds under the name a $ref points
\* to, Nothing when the $ref names no schema
Resolve(doc, ref) ==
    LET schemas == Get(Get(doc, "components"), "schemas")
        names == {name \in Keys(schemas) : Get(ref, "$ref") = Str("#/components/schemas/" \o name)}
    IN IF names = {} THEN Nothing ELSE Get(schemas, CHOOSE name \in names : TRUE)

\* the operation the document holds under the path of a function
OperationOf(doc, func) ==
    Get(Get(Get(doc, "paths"), "/webservice/rest/" \o Join(func.name)), "post")

\* the schema the operation's request body refers to
RequestSchemaOf(doc, func) ==
    Resolve(doc, Get(Get(Get(Get(OperationOf(doc, func), "requestBody"), "content"),
                         "application/x-www-form-urlencoded"), "schema"))

\* the schema the operation's 200 response refers to
ResponseSchemaOf(doc, func) ==
    Resolve(doc, Get(Get(Get(Get(Get(OperationOf(doc, func), "responses"), "200"),
                             "content"), "application/json"), "schema"))

\* the request schema of a function taken alone: its parameters
\* transformed, or the empty object schema
OwnRequestSchema(func) ==
    IF func.parameters \in {Undef, Null}
    THEN Obj(<<Prop("type", Str("object")), Prop("properties", Obj(<<>>))>>)
    ELSE moodleTypeToOpenAPI(func.parameters)

\* the response schema of a function taken alone: its returns transformed,
\* or the nullable empty object
OwnResponseSchema(func) ==
    IF func.returns \in {Undef, Null}
    THEN Obj(<<Prop("type", Str("object")), Prop("nullable", Bool(TRUE))>>)
    ELSE moodleTypeToOpenAPI(func.returns)

\* C21: for every function of the schema document, the component schema
\* that the function's path references as request body is the transform of
\* that same function's parameters, and the one its 200 response references
\* is the transform of its own returns (or the empty / nullable empty object
\* when absent); this holds for every list of functions, also when two
\* function names yield the same PascalCase identifier.
C21_OwnSchemas ==
    Generated =>
        \A i \in DOMAIN FunctionsOf(genDoc) :
            LET func == FunctionsOf(genDoc)[i]
            IN /\ RequestSchemaOf(genOut, func) = OwnRequestSchema(func)
               /\ ResponseSchemaOf(genOut, func) = OwnResponseSchema(func)

\* the node is a scalar node: its type is one of the four scalar types
IsScalarNode(node) ==
    Get(node, "type") \in {Str("integer"), Str("number"), Str("boolean"), Str("string")}

\* C22: for every scalar schema node of every declared type (integer,
\* number, boolean, string), the generated schema has the same type tag and
\* carries nullable: true exactly when the source node is nullable, default
\* exactly when the source declares a default, and description when the
\* source has one.
C22_ScalarFields ==
    (Transformed /\ IsScalarNode(genNode)) =>
        /\ Get(genOut, "type") = Get(genNode, "type")
        /\ HasKey(genOut.props, "nullable") <=> Get(genNode, "nullable") = Bool(TRUE)
        /\ HasKey(genOut.props, "nullable") => Get(genOut, "nullable") = Bool(TRUE)
        /\ HasKey(genOut.props, "default") <=> HasKey(genNode.props, "default")
        /\ Get(genOut, "default") = Get(genNode, "default")
        /\ Get(genNode, "description") \notin {Undef, Str("")} =>
                Get(genOut, "description") = Get(genNode, "description")

----------------------------------------------------------------------------
(* generate-openapi.mjs: the YAML emitter. Its strings and keys are texts  *)
(* given character by character, and so is the YAML text it returns.       *)

RECURSIVE Trim(_)
\* text.trim(): the white space at both ends removed
Trim(text) ==
    IF text # <<>> /\ Head(text) \in {" ", "\t", "\n"} THEN Trim(Tail(text))
    ELSE IF text # <<>> /\ text[Len(text)] \in {" ", "\t", "\n"}
         THEN Trim(SubSeq(text, 1, Len(text) - 1))
    ELSE text

\* text.replace(/c/g, by) for a character c
Replace(text, c, by) ==
    Concat([i \in DOMAIN text |-> IF text[i] = c THEN by ELSE <<text[i]>>])

RECURSIVE NumberChars(_)
\* String(n) for an integer
NumberChars(n) ==
    IF n < 0 THEN <<"-">> \o NumberChars(-n)
    ELSE IF n < 10 THEN <<Digit[n + 1]>>
    ELSE NumberChars(n \div 10) \o <<Digit[(n % 10) + 1]>>

\* formatYamlValue(value)
formatYamlValue(value) ==
    CASE value.t \in {"null", "undefined"} -> <<"n", "u", "l", "l">>
      [] value.t = "boolean" ->
            IF value.b THEN <<"t", "r", "u", "e">> ELSE <<"f", "a", "l", "s", "e">>
      [] value.t = "number" -> NumberChars(value.n)
      [] value.t = "string" ->
            IF \/ value.s = <<>>
               \/ \E i \in DOMAIN value.s : value.s[i] \in {":", "#", "\n"}
               \/ Head(value.s) = " "
               \/ value.s[Len(value.s)] = " "
               \/ InRange(Head(value.s), "0", "9")
               \/ [i \in DOMAIN value.s |-> ToLowerCase(value.s[i])]
                    \in {<<"t", "r", "u", "e">>, <<"f", "a", "l", "s", "e">>,
                         <<"n", "u", "l", "l">>, <<"y", "e", "s">>, <<"n", "o">>}
            THEN <<"\"">>
                 \o Replace(Replace(value.s, "\"", <<"\\", "\"">>), "\n", <<"\\", "n">>)
                 \o <<"\"">>
            ELSE value.s

RECURSIVE jsonToYaml(_, _)
\* jsonToYaml(obj, indent)
jsonToYaml(obj, indent) ==
    LET spaces == [i \in 1..(2 * indent) |-> " "]
        \* itemYaml.split("\n").filter((l) => l.trim())
        Lines(text) == SelectSeq(Split(text, "\n"), LAMBDA l : Trim(l) # <<>>)
        \* what the loop over an array adds for an item
        ItemYaml(item) ==
            IF IsObjectLike(item)
            THEN LET lines == Lines(jsonToYaml(item, indent + 1))
                 IN <<"\n">> \o spaces \o <<"-">>
                    \o (IF lines = <<>> THEN <<>>
                        ELSE <<" ">> \o Trim(lines[1])
                             \o Concat([i \in 1..(Len(lines) - 1) |->
                                    <<"\n">> \o spaces \o <<" ", " ">>
                                    \o Trim(lines[i + 1])]))
            ELSE <<"\n">> \o spaces \o <<"-", " ">> \o formatYamlValue(item)
        \* /^[a-zA-Z_][a-zA-Z0-9_]*$/.test(key) ? key : `"${key}"`
        SafeKey(key) ==
            IF /\ key # <<>>
               /\ \A i \in DOMAIN key :
                    \/ InRange(key[i], "a", "z")
                    \/ InRange(key[i], "A", "Z")
                    \/ key[i] = "_"
                    \/ i > 1 /\ InRange(key[i], "0", "9")
            THEN key
            ELSE <<"\"">> \o key \o <<"\"">>
        \* what the loop over Object.entries adds for an entry; a nested "{}"
        \* or "[]" follows the colon and a space like any nested text that
        \* does not begin with a line feed
        EntryYaml(key, value) ==
            IF IsObjectLike(value)
            THEN LET nestedYaml == jsonToYaml(value, indent + 1)
                 IN IF nestedYaml # <<>> /\ Head(nestedYaml) = "\n"
                    THEN spaces \o SafeKey(key) \o <<":">> \o nestedYaml \o <<"\n">>
                    ELSE spaces \o SafeKey(key) \o <<":", " ">> \o nestedYaml \o <<"\n">>
            ELSE spaces \o SafeKey(key) \o <<":", " ">> \o formatYamlValue(value)
                 \o <<"\n">>
    IN IF obj.t = "array"
       THEN (IF obj.items = <<>> THEN <<"[", "]">>
             ELSE Concat([i \in DOMAIN obj.items |-> ItemYaml(obj.items[i])]))
       ELSE IF obj.t = "object"
            THEN (IF obj.props = <<>> THEN <<"{", "}">>
                  ELSE Concat([i \in DOMAIN obj.props |->
                                EntryYaml(obj.props[i].k, obj.props[i].v)]))
       ELSE formatYamlValue(obj)

----------------------------------------------------------------------------
(* Inputs of the emitter *)

\* largest length of a generated string
MaxTextLen == 2

\* largest number of nodes (scalars, arrays, mappings) in a generated tree
MaxYamlNodes == 4

\* the strings tried: every text of at most max characters over a colon, a
\* hash, a space, a tab, a line feed, a double quote, a digit and a letter,
\* and the reserved words in several spellings
YamlTexts(max) ==
    UNION {[1..n -> {":", "#", " ", "\t", "\n", "\"", "1", "a"}] : n \in 0..max}
    \cup {<<"t", "r", "u", "e">>, <<"T", "r", "u", "e">>, <<"F", "A", "L", "S", "E">>,
          <<"n", "u", "l", "l">>, <<"Y", "e", "s">>, <<"n", "o">>, <<"n", "o", "w">>}

RECURSIVE YamlTreesOfSize(_)
RECURSIVE YamlForestsOfSize(_)

\* the sequences of trees with n nodes in all
YamlForestsOfSize(n) ==
    IF n = 0 THEN {<<>>}
    ELSE UNION {{<<v>> \o f : v \in YamlTreesOfSize(s), f \in YamlForestsOfSize(n - s)} :
                s \in 1..n}

\* the trees with exactly n nodes: scalars, arrays, and mappings under every
\* sequence of distinct keys a, b
YamlTreesOfSize(n) ==
    IF n = 1 THEN {Num(1), Str(<<"x">>), Arr(<<>>), Obj(<<>>)}
    ELSE LET forests == YamlForestsOfSize(n - 1)
             Mappings(f) ==
                {Obj([i \in DOMAIN f |-> Prop(<<ks[i]>>, f[i])]) :
                    ks \in {ks \in [DOMAIN f -> {"a", "b"}] :
                                \A i, j \in DOMAIN f : i # j => ks[i] # ks[j]}}
         IN {Arr(f) : f \in forests} \cup UNION {Mappings(f) : f \in forests}

\* { a: "true", b: 1, c: [1, 2] }
ExampleYaml ==
    Obj(<<Prop(<<"a">>, Str(<<"t", "r", "u", "e">>)), Prop(<<"b">>, Num(1)),
          Prop(<<"c">>, Arr(<<Num(1), Num(2)>>))>>)

----------------------------------------------------------------------------
(* The emitter harness: jsonToYaml on one value *)

InitEmitter ==
    /\ yamlPc = "ready"
    /\ yamlIn \in {Str(text) : text \in YamlTexts(MaxTextLen)}
                  \cup UNION {YamlTreesOfSize(n) : n \in 1..MaxYamlNodes}
                  \cup {ExampleYaml}
    /\ yamlOut = <<>>
    /\ SerializerIdle
    /\ CallIdle
    /\ GeneratorIdle
    /\ ConcurrentIdle

\* const yaml = jsonToYaml(value)
Emit ==
    /\ yamlPc = "ready"
    /\ yamlOut' = jsonToYaml(yamlIn, 0)
    /\ yamlPc' = "done"
    /\ UNCHANGED <<yamlIn, serVars, callVars, genVars, concVars>>

SpecEmitter == InitEmitter /\ [][Emit]_vars

----------------------------------------------------------------------------
(* Claims about the emitter, checked under SpecEmitter *)

\* the string has to be quoted: it is empty, contains ':' or '#', has
\* leading or trailing white space, starts with a digit, or is a reserved
\* word in any letter case
NeedsQuotes(text) ==
    \/ text = <<>>
    \/ \E i \in DOMAIN text : text[i] \in {":", "#"}
    \/ Head(text) \in {" ", "\t", "\n"}
    \/ text[Len(text)] \in {" ", "\t", "\n"}
    \/ Head(text) \in {"0", "1", "2", "3", "4", "5", "6", "7", "8", "9"}
    \/ \E word \in {<<"t", "r", "u", "e">>, <<"f", "a", "l", "s", "e">>,
                    <<"n", "u", "l", "l">>, <<"y", "e", "s">>, <<"n", "o">>} :
            /\ Len(word) = Len(text)
            /\ \A i \in DOMAIN word : text[i] \in {word[i], ToUpperCase(word[i])}

\* the lines of the example: a: "true", b: 1, c: and the items - 1, - 2
ExampleYamlLines ==
    <<<<"a", ":", " ", "\"", "t", "r", "u", "e", "\"">>,
      <<"b", ":", " ", "1">>,
      <<"c", ":">>,
      <<" ", " ", "-", " ", "1">>,
      <<" ", " ", "-", " ", "2">>,
      <<>>>>

\* C16: formatYamlValue renders a string in double quotes if and only if it
\* is empty, contains ':' or '#', has leading or trailing white space,
\* starts with a digit, or equals true/false/null/yes/no in any letter case;
\* every other string is rendered bare. Inside the quotes double quotes are
\* escaped and line feeds become \n; and {a: "true", b: 1, c: [1, 2]}
\* renders a: "true", b: 1 and c: followed by the lines - 1 and - 2.
C16_QuotedIffNeeded ==
    /\ (yamlPc = "done" /\ yamlIn.t = "string") =>
            yamlOut = IF NeedsQuotes(yamlIn.s)
                      THEN <<"\"">>
                           \o Replace(Replace(yamlIn.s, "\"", <<"\\", "\"">>),
                                      "\n", <<"\\", "n">>)
                           \o <<"\"">>
                      ELSE yamlIn.s
    /\ (yamlPc = "done" /\ yamlIn = ExampleYaml) =>
            Split(yamlOut, "\n") = ExampleYamlLines

RECURSIVE NestedMappings(_, _)
\* the mappings that are not empty and are the value of a key of a mapping,
\* found from the mapping v at depth d through mappings alone: each with its
\* key and the depth of its key
NestedMappings(v, d) ==
    UNION {IF v.props[i].v.t = "object" /\ v.props[i].v.props # <<>>
           THEN {[key |-> v.props[i].k, depth |-> d, mapping |-> v.props[i].v]}
                \cup NestedMappings(v.props[i].v, d + 1)
           ELSE {} : i \in DOMAIN v.props}

\* text begins with prefix
StartsWith(text, prefix) ==
    Len(prefix) <= Len(text) /\ SubSeq(text, 1, Len(prefix)) = prefix

\* C17: for a non-empty mapping that is the value of a key in another
\* mapping, at any depth, jsonToYaml emits the parent key on a line of its
\* own and each key of the nested mapping on its own key: value line,
\* indented exactly two spaces deeper than the parent key; no nested key
\* shares a line with its parent key.
C17_NestedIndent ==
    (yamlPc = "done" /\ yamlIn.t = "object") =>
        LET lines == Split(yamlOut, "\n")
            Indent(d) == [i \in 1..(2 * d) |-> " "]
        IN \A n \in NestedMappings(yamlIn, 0) :
            /\ \E i \in DOMAIN lines : lines[i] = Indent(n.depth) \o n.key \o <<":">>
            /\ \A j \in DOMAIN n.mapping.props :
                \E i \in DOMAIN lines :
                    StartsWith(lines[i],
                               Indent(n.depth + 1) \o n.mapping.props[j].k \o <<":">>)

----------------------------------------------------------------------------
(* call.ts under concurrency: one client, several invocations of call() in *)
(* flight at once. Each invocation has its own frame (its locals and its   *)
(* position); the AbortControllers, the runtime's timers and the requests  *)
(* handed to the transport are objects all invocations could reach.        *)

\* the number of concurrent invocations
MaxCalls == 2

CallIds == 1..MaxCalls

\* the functions the invocations call, one each
ConcurrentFunctions ==
    <<"core_course_get_courses", "core_user_get_users", "core_webservice_get_site_info",
      "core_enrol_get_users_courses">>

\* this.config of the client all invocations go through
SharedClients ==
    {ClientConfig([baseUrl |-> UrlStr(<<Origin>>), token |-> Str("secret"),
                   timeout |-> timeout]) : timeout \in Timeouts}

\* the parsed bodies the transport delivers: a plain result, a result with
\* warnings, an error body
ConcurrentBodies ==
    {Str("done"),
     Obj(<<Prop("warnings", Arr(<<Str("w1")>>))>>),
     Obj(<<Prop("message", Str("Invalid token")), Prop("exception", Str("moodle_exception")),
           Prop("errorcode", Str("invalidtoken"))>>)}

\* one controller for the whole module: every invocation gets the first
NewController_Shared(existing) == 1

\* const controller = new AbortController(): a new object, identified by
\* its place among the controllers created
NewController(existing) == Len(existing) + 1

\* the state of an invocation that has not run yet
NewFrame(fn, options) ==
    [pc |-> "start", wsfunction |-> fn, timeout |-> options.timeout.n,
     baseUrl |-> options.baseUrl, token |-> options.token,
     controller |-> 0, timeoutId |-> 0, requestId |-> 0,
     httpResponse |-> Nothing, parsed |-> Nothing, outcome |-> Nothing]

InitConcurrent ==
    /\ \E options \in SharedClients :
            frames = [i \in CallIds |-> NewFrame(ConcurrentFunctions[i], options)]
    /\ controllers = <<>>
    /\ timers = <<>>
    /\ transport = <<>>
    /\ SerializerIdle
    /\ CallIdle
    /\ GeneratorIdle
    /\ EmitterIdle

\* the frame of an invocation that ends throwing what the catch block makes
\* of error
ThrowIn(frame, error) ==
    [frame EXCEPT !.outcome = Catch(error, frame.timeout), !.pc = "thrown"]

\* the timers after clearTimeout(timeoutId)
ClearTimeoutIn(table, timeoutId) ==
    [table EXCEPT ![timeoutId].state = ClearTimeout(@)]

\* an invocation runs up to its first await: the URL and the body are built,
\* a controller is created, setTimeout arms a timer whose callback aborts
\* that controller, and fetch is called with the controller's signal
ConcurrentCallStart ==
    \E i \in CallIds :
        LET frame == frames[i]
            url == NewURL(EndpointPath, frame.baseUrl)
            body == serializeParams(RequestParams(frame.token, frame.wsfunction,
                                                  Obj(<<>>)), "")
            controller == NewController(controllers)
            timeoutId == Len(timers) + 1
        IN /\ frame.pc = "start"
           /\ controllers' = Append(controllers, FALSE)
           /\ timers' = Append(timers, [state |-> "armed", controller |-> controller])
           /\ transport' = Append(transport, [url |-> URLToString(url), body |-> body,
                                              signal |-> controller])
           /\ frames' = [frames EXCEPT ![i] =
                            [frame EXCEPT !.pc = "fetching", !.controller = controller,
                                          !.timeoutId = timeoutId,
                                          !.requestId = Len(transport) + 1]]
           /\ UNCHANGED <<serVars, callVars, toolVars>>

\* the signal of the request an invocation is waiting for has been aborted
SignalAborted(i) == controllers[transport[frames[i].requestId].signal]

\* fetch resolves for an invocation: its timer is cleared; a status outside
\* 2xx throws, otherwise response.json() is called
ConcurrentFetchResolve ==
    \E i \in CallIds, r \in Responses :
        /\ frames[i].pc = "fetching"
        /\ ~SignalAborted(i)
        /\ timers' = ClearTimeoutIn(timers, frames[i].timeoutId)
        /\ frames' = [frames EXCEPT ![i] =
                LET frame == [frames[i] EXCEPT !.httpResponse = r]
                IN IF ~ResponseOk(r.status)
                   THEN ThrowIn(frame, MoodleNetworkError(
                                    HttpErrorMessage(r.status, r.statusText), Undef))
                   ELSE [frame EXCEPT !.pc = "reading"]]
        /\ UNCHANGED <<controllers, transport, serVars, callVars, toolVars>>

\* fetch rejects for an invocation: the catch block clears its timer
ConcurrentFetchReject ==
    \E i \in CallIds, e \in TransportErrors :
        /\ frames[i].pc = "fetching"
        /\ ~SignalAborted(i)
        /\ timers' = ClearTimeoutIn(timers, frames[i].timeoutId)
        /\ frames' = [frames EXCEPT ![i] = ThrowIn(frames[i], e)]
        /\ UNCHANGED <<controllers, transport, serVars, callVars, toolVars>>

\* the deadline of an armed timer passes: its callback aborts the controller
\* it closed over
ConcurrentTimerFire ==
    \E t \in DOMAIN timers :
        /\ timers[t].state = "armed"
        /\ timers' = [timers EXCEPT ![t].state = "fired"]
        /\ controllers' = [controllers EXCEPT ![timers[t].controller] = TRUE]
        /\ UNCHANGED <<frames, transport, serVars, callVars, toolVars>>

\* a fetch whose signal is aborted rejects with the abort reason
ConcurrentFetchAbort ==
    \E i \in CallIds :
        /\ frames[i].pc = "fetching"
        /\ SignalAborted(i)
        /\ timers' = ClearTimeoutIn(timers, frames[i].timeoutId)
        /\ frames' = [frames EXCEPT ![i] = ThrowIn(frames[i], AbortReason)]
        /\ UNCHANGED <<controllers, transport, serVars, callVars, toolVars>>

\* response.json() resolves for an invocation: an error body throws an API
\* error (and the catch block clears the timer), any other value is returned
ConcurrentJsonResolve ==
    \E i \in CallIds, data \in ConcurrentBodies :
        /\ frames[i].pc = "reading"
        /\ IF isMoodleErrorResponse(data)
           THEN /\ timers' = ClearTimeoutIn(timers, frames[i].timeoutId)
                /\ frames' = [frames EXCEPT ![i] =
                        ThrowIn([frames[i] EXCEPT !.parsed = data], ApiErrorOf(data))]
           ELSE /\ timers' = timers
                /\ frames' = [frames EXCEPT ![i] =
                        [frames[i] EXCEPT !.parsed = data, !.pc = "returned",
                            !.outcome = [data |-> data, warnings |-> WarningsOf(data)]]]
        /\ UNCHANGED <<controllers, transport, serVars, callVars, toolVars>>

\* response.json() rejects for an invocation: the body is not JSON, or the
\* signal was aborted while the body was being read
ConcurrentJsonReject ==
    \E i \in CallIds :
        /\ frames[i].pc = "reading"
        /\ \E e \in BodyErrors \cup (IF SignalAborted(i) THEN {AbortReason} ELSE {}) :
                frames' = [frames EXCEPT ![i] = ThrowIn(frames[i], e)]
        /\ timers' = ClearTimeoutIn(timers, frames[i].timeoutId)
        /\ UNCHANGED <<controllers, transport, serVars, callVars, toolVars>>

SpecConcurrent ==
    InitConcurrent
    /\ [][ConcurrentCallStart \/ ConcurrentFetchResolve \/ ConcurrentFetchReject
          \/ ConcurrentTimerFire \/ ConcurrentFetchAbort \/ ConcurrentJsonResolve
          \/ ConcurrentJsonReject]_vars

----------------------------------------------------------------------------
(* Claims about concurrent calls, checked under SpecConcurrent *)

\* the invocation has called fetch
HasStarted(i) == frames[i].pc # "start"

\* the requests the transport received from invocation i
RequestsOf(i) ==
    {r \in DOMAIN transport :
        transport[r].body = serializeParams(RequestParams(frames[i].token,
                                frames[i].wsfunction, Obj(<<>>)), "")}

\* the invocation failed with the timeout message
TimedOut(i) ==
    /\ frames[i].pc = "thrown"
    /\ frames[i].outcome.class = "MoodleNetworkError"
    /\ frames[i].outcome.message = TimeoutMessage(frames[i].timeout)

\* the deadline timer of the invocation has fired
OwnTimerFired(i) == HasStarted(i) /\ timers[frames[i].timeoutId].state = "fired"

\* C23: in every interleaving of two or more concurrent calls, each call
\* issues exactly one transport request and owns its own deadline timer and
\* abort signal: the expiry of one call's deadline, or the failure of one
\* call, never aborts, fails or changes the result of another call.
C23_CallsIsolated ==
    /\ \A i \in CallIds :
        /\ Cardinality(RequestsOf(i)) = (IF HasStarted(i) THEN 1 ELSE 0)
        /\ HasStarted(i) =>
            /\ transport[frames[i].requestId].signal = frames[i].controller
            /\ timers[frames[i].timeoutId].controller = frames[i].controller
            /\ controllers[frames[i].controller] => OwnTimerFired(i)
            /\ SignalAborted(i) => OwnTimerFired(i)
        /\ TimedOut(i) => OwnTimerFired(i)
        /\ frames[i].pc \in {"returned", "thrown"} =>
                timers[frames[i].timeoutId].state # "armed"
        /\ frames[i].pc = "returned" => frames[i].outcome.data = frames[i].parsed
    /\ \A i, j \in CallIds :
        (i # j /\ HasStarted(i) /\ HasStarted(j)) =>
            /\ frames[i].controller # frames[j].controller
            /\ frames[i].timeoutId # frames[j].timeoutId
            /\ frames[i].requestId # frames[j].requestId

\* one call has timed out while another is still in flight, its signal not
\* aborted and its own timer still armed
C23_Witness ==
    \E i, j \in CallIds :
        /\ i # j
        /\ TimedOut(i)
        /\ frames[j].pc = "fetching"
        /\ ~SignalAborted(j)
        /\ timers[frames[j].timeoutId].state = "armed"

============================================================================
